---- MODULE Spec2Model ----
(***************************************************************************)
(* Model of the foodgram REST backend (backend/api): the recipe store with *)
(* its RecipeIngredient associations, the Favorite / ShoppingList relation *)
(* sets, the Subscription graph, the shopping-list aggregation and the     *)
(* user accounts.                                                          *)
(*                                                                         *)
(* The state is the content of the database tables plus `last`, the last   *)
(* request served together with its response.  Every action is one HTTP    *)
(* handler, executed as a whole.                                           *)
(***************************************************************************)
EXTENDS Integers, Sequences, FiniteSets, TLC

VARIABLES
    users,               \* User table: pk -> [username, email, is_staff]
    next_user_id,        \* the position in UserPks of the next User row's pk
    ingredient_catalog,  \* Ingredient table: pk -> [name, measurement_unit]
    next_ingredient_id,  \* the auto-increment pk the next Ingredient row receives
    recipes,             \* Recipe table: pk -> [author, name, image, cooking_time]
    next_recipe_id,      \* the auto-increment pk the next Recipe row receives
    recipe_ingredients,  \* RecipeIngredient table: rows [recipe, ingredient, amount]
    favorites,           \* Favorite table: rows [user, recipe]
    shopping_carts,      \* ShoppingList table: rows [user, recipe]
    subscriptions,       \* Subscription table: rows [author, subscriber]
    inflight,            \* the requests served statement by statement: slot -> request
    last                 \* the last request and its response

vars == <<users, next_user_id, ingredient_catalog, next_ingredient_id,
          recipes, next_recipe_id, recipe_ingredients, favorites,
          shopping_carts, subscriptions, inflight, last>>

store == <<users, next_user_id, ingredient_catalog, next_ingredient_id,
           recipes, next_recipe_id, recipe_ingredients, favorites,
           shopping_carts, subscriptions, inflight>>

----------------------------------------------------------------------------
(* Bounds of the model *)

\* in-range ingredient amounts submitted by requests: 1..MaxAmount
MaxAmount == 2

(* Program constants *)
MIN_VALUE == 1
MAX_VALUE == 32000
MIN_COOKING_TIME == 1
MAX_COOKING_TIME == 32000

HTTP_201_CREATED == 201
HTTP_204_NO_CONTENT == 204
HTTP_400_BAD_REQUEST == 400
HTTP_403_FORBIDDEN == 403
HTTP_404_NOT_FOUND == 404
HTTP_405_METHOD_NOT_ALLOWED == 405

----------------------------------------------------------------------------
(* The users, the callers and the ingredient catalog *)

\* User table: the registered accounts; is_staff marks the admin
Users == {"u1", "u2", "u3"}
Staff == {"u3"}
\* the callers of the recipe and relation endpoints the model enumerates
RecipeUsers == {"u1", "u2"}
\* request.user of a request without credentials (AnonymousUser)
Anon == "anon"
Callers == Users \cup {Anon}
\* a user pk no row has
NoSuchUser == "u9"

\* the Ingredient rows a deployment is loaded with: pk -> (name,
\* measurement_unit), unique per pair
Catalog ==
    (1 :> [name |-> "flour", measurement_unit |-> "g"]) @@
    (2 :> [name |-> "egg",   measurement_unit |-> "pcs"]) @@
    (3 :> [name |-> "flour", measurement_unit |-> "kg"])
IngredientIds == DOMAIN ingredient_catalog
\* ingredient pks a request may submit; 9 is in no catalog row
RequestIngredientIds == {1, 2, 9}

\* the Recipe pks of one behaviour: the rows ever created
RecipeIds == {1, 2}
\* the lengths of a submitted ingredient list
ListLengths == {0, 1, 2}

----------------------------------------------------------------------------
(* Helpers *)

RECURSIVE SumOver(_, _)
\* Sum of f[x] over the finite set S
SumOver(S, f) ==
    IF S = {} THEN 0
    ELSE LET x == CHOOSE y \in S : TRUE
         IN f[x] + SumOver(S \ {x}, f)

Range(s) == {s[i] : i \in DOMAIN s}

\* sequences over S with a length in Lengths
SeqsOf(S, Lengths) == UNION {[1..k -> S] : k \in Lengths}

----------------------------------------------------------------------------
(* Requests and responses *)

\* a key the request body does not carry
NoValue == "<absent>"

\* the body of a recipe write request (text is always supplied)
RecipeRequest(name, ingredients, image, cooking_time) ==
    [name |-> name, ingredients |-> ingredients, image |-> image,
     cooking_time |-> cooking_time]

\* the body of a request that carries none
NoRequest == RecipeRequest(NoValue, <<>>, NoValue, 0)

Response(op, caller, pk, req, status, errors, error_ids, doc) ==
    [op |-> op, caller |-> caller, pk |-> pk, req |-> req, status |-> status,
     errors |-> errors, error_ids |-> error_ids, doc |-> doc]

\* items {id, amount} of a submitted ingredient list
IngredientItems(ids, amounts) == [id : ids, amount : amounts]

----------------------------------------------------------------------------
(* RecipeSerializer: field validation, then validate() *)

\* IngredientInputSerializer.id: the pks no Ingredient row has
UnknownIngredientIds(ingredients) ==
    {item.id : item \in Range(ingredients)} \ IngredientIds

\* IngredientInputSerializer.amount: IntegerField(min_value, max_value)
AmountInRange(amount) == amount >= MIN_VALUE /\ amount <= MAX_VALUE

\* The errors of the serializer's fields (Serializer.to_internal_value runs
\* every field and reports all the failures together, before validate()).
FieldErrors(req) ==
    (IF req.name = NoValue THEN {"name: required"} ELSE {}) \cup
    (IF req.image = "" THEN {"image: invalid"} ELSE {}) \cup
    (IF UnknownIngredientIds(req.ingredients) # {}
        THEN {"ingredients.id: does_not_exist"} ELSE {}) \cup
    (IF \E item \in Range(req.ingredients) : ~AmountInRange(item.amount)
        THEN {"ingredients.amount: out of range"} ELSE {}) \cup
    (IF req.cooking_time < MIN_COOKING_TIME \/ req.cooking_time > MAX_COOKING_TIME
        THEN {"cooking_time: out of range"} ELSE {})

\* ingredient_ids of validate(): the pks of the resolved Ingredient objects
ValidateIngredientIds(ingredients) ==
    [i \in DOMAIN ingredients |-> ingredients[i].id]

\* validate() without its uniqueness check
ValidateNoUniqueCheck(req) ==
    LET ingredient_ids == ValidateIngredientIds(req.ingredients)
        missing_ids == Range(ingredient_ids) \ IngredientIds
    IN  IF req.name = NoValue THEN "name required"
        ELSE IF req.ingredients = <<>> THEN "ingredients empty"
        ELSE IF missing_ids # {} THEN "ingredients missing"
        ELSE IF req.image = NoValue \/ req.image = "" THEN "image required"
        ELSE ""

\* RecipeSerializer.validate: the first check that fails, "" when none does
Validate(req) ==
    LET ingredient_ids == ValidateIngredientIds(req.ingredients)
        existing_ids == Range(ingredient_ids) \cap IngredientIds
        missing_ids == Range(ingredient_ids) \ existing_ids
    IN  IF req.name = NoValue THEN "name required"
        ELSE IF req.ingredients = <<>> THEN "ingredients empty"
        ELSE IF missing_ids # {} THEN "ingredients missing"
        ELSE IF Len(ingredient_ids) # Cardinality(Range(ingredient_ids))
            THEN "ingredients not unique"
        ELSE IF req.image = NoValue \/ req.image = "" THEN "image required"
        ELSE ""

\* is_valid() running validate() before the fields' own validators
SerializerErrorsValidateFirst(req) ==
    LET field_errors == FieldErrors(req)
        error == Validate(req)
    IN  IF error # "" THEN {error}
        ELSE IF field_errors # {} THEN field_errors
        ELSE {}

\* serializer.is_valid(): the errors the request is rejected with, {} if valid
SerializerErrors(req) ==
    LET field_errors == FieldErrors(req)
        error == Validate(req)
    IN  IF field_errors # {} THEN field_errors
        ELSE IF error # "" THEN {error}
        ELSE {}

\* an error message that names no pk
ErrorIdsNone(req, errors) == {}

\* the ingredient pks the error response names
ErrorIds(req, errors) ==
    IF "ingredients.id: does_not_exist" \in errors
        THEN UnknownIngredientIds(req.ingredients)
    ELSE IF "ingredients missing" \in errors
        THEN Range(ValidateIngredientIds(req.ingredients)) \ IngredientIds
    ELSE {}

----------------------------------------------------------------------------
(* RecipeSerializer: create and update *)

\* RecipeIngredient.objects.bulk_create(rows)
BulkCreate(table, rows) == table \cup rows

\* _create_ingredients: the list handed to bulk_create is built empty and
\* nothing is appended to it
CreateIngredients(table, recipe, ingredients_data) ==
    LET ingredients_bulk == {}
    IN  BulkCreate(table, ingredients_bulk)

\* an update that inserts the submitted rows next to the stored ones
UpdateIngredientsAppend(table, recipe, ingredients_data) ==
    table \cup {[recipe |-> recipe, ingredient |-> item.id,
                 amount |-> item.amount] : item \in Range(ingredients_data)}

\* an update that merges the submitted list into the stored rows, adding
\* the submitted amount to the amount of a row that is there
UpdateIngredientsMerge(table, recipe, ingredients_data) ==
    LET ids == {item.id : item \in Range(ingredients_data)}
        stored(id) == {row \in table : row.recipe = recipe /\ row.ingredient = id}
        merged(item) ==
            IF stored(item.id) = {} THEN item.amount
            ELSE item.amount + (CHOOSE row \in stored(item.id) : TRUE).amount
    IN  {row \in table : row.recipe # recipe \/ row.ingredient \notin ids} \cup
        {[recipe |-> recipe, ingredient |-> item.id, amount |-> merged(item)] :
            item \in Range(ingredients_data)}

\* _update_ingredients: delete the recipe's rows, then _create_ingredients
UpdateIngredients(table, recipe, ingredients_data) ==
    CreateIngredients({row \in table : row.recipe # recipe},
                      recipe, ingredients_data)

\* the RecipeIngredient rows of a recipe, as (ingredient, amount) pairs
IngredientsOf(table, recipe) ==
    {<<row.ingredient, row.amount>> : row \in {r \in table : r.recipe = recipe}}

\* the (ingredient, amount) pairs a request submits
Submitted(ingredients) ==
    {<<item.id, item.amount>> : item \in Range(ingredients)}

\* POST /recipes/ : RecipeViewSet.create, perform_create, RecipeSerializer.create
RecipeCreate(caller, req) ==
    LET errors == SerializerErrors(req)
    IN  IF caller = Anon THEN
            /\ last' = Response("recipe_create", caller, 0, req,
                                401, {}, {}, {})
            /\ UNCHANGED store
        ELSE IF errors # {} THEN
            /\ last' = Response("recipe_create", caller, 0, req,
                                HTTP_400_BAD_REQUEST, errors,
                                ErrorIds(req, errors), {})
            /\ UNCHANGED store
        ELSE
            /\ next_recipe_id \in RecipeIds
            /\ recipes' = recipes @@ (next_recipe_id :>
                    [author |-> caller, name |-> req.name, image |-> req.image,
                     cooking_time |-> req.cooking_time])
            /\ next_recipe_id' = next_recipe_id + 1
            /\ recipe_ingredients' =
                    CreateIngredients(recipe_ingredients, next_recipe_id,
                                      req.ingredients)
            /\ last' = Response("recipe_create", caller, next_recipe_id, req,
                                HTTP_201_CREATED, {}, {}, {})
            /\ UNCHANGED <<ingredient_catalog, next_ingredient_id, inflight,
                           users, next_user_id, favorites, shopping_carts,
                           subscriptions>>

\* permissions.SAFE_METHODS
SAFE_METHODS == {"GET", "HEAD", "OPTIONS"}

\* an object permission that lets every user write
IsAuthorOrReadOnlyAllowAny(method, author, user) == TRUE

\* IsAuthorOrReadOnly.has_object_permission
IsAuthorOrReadOnly(method, author, user) ==
    IF method \in SAFE_METHODS THEN TRUE
    ELSE author = user

\* PUT /recipes/{pk}/ : RecipeViewSet.update, RecipeSerializer.update
RecipeUpdate(caller, pk, req) ==
    IF caller = Anon THEN
        /\ last' = Response("recipe_update", caller, pk, req,
                            401, {}, {}, {})
        /\ UNCHANGED store
    ELSE IF pk \notin DOMAIN recipes THEN
        /\ last' = Response("recipe_update", caller, pk, req,
                            HTTP_404_NOT_FOUND, {}, {}, {})
        /\ UNCHANGED store
    ELSE IF ~IsAuthorOrReadOnly("PUT", recipes[pk].author, caller) THEN
        /\ last' = Response("recipe_update", caller, pk, req,
                            HTTP_403_FORBIDDEN, {}, {}, {})
        /\ UNCHANGED store
    ELSE LET errors == SerializerErrors(req)
         IN IF errors # {} THEN
                /\ last' = Response("recipe_update", caller, pk, req,
                                    HTTP_400_BAD_REQUEST, errors,
                                    ErrorIds(req, errors), {})
                /\ UNCHANGED store
            ELSE
                /\ recipes' = [recipes EXCEPT ![pk] =
                        [author |-> @.author, name |-> req.name,
                         image |-> IF req.image = NoValue THEN @.image
                                                          ELSE req.image,
                         cooking_time |-> req.cooking_time]]
                /\ recipe_ingredients' =
                        UpdateIngredients(recipe_ingredients, pk, req.ingredients)
                /\ last' = Response("recipe_update", caller, pk, req,
                                    200, {}, {}, {})
                /\ UNCHANGED <<ingredient_catalog, next_ingredient_id, inflight,
                               users, next_user_id, next_recipe_id, favorites,
                               shopping_carts, subscriptions>>

\* the errors of the serializer's fields under partial=True: a field the
\* request leaves out is not required
PartialFieldErrors(req) == FieldErrors(req) \ {"name: required"}

\* PATCH /recipes/{pk}/ : RecipeViewSet.partial_update; validate() runs on
\* the fields supplied, so it demands name, ingredients and image as on PUT
RecipePartialUpdate(caller, pk, req) ==
    IF caller \notin DOMAIN users THEN
        /\ last' = Response("recipe_partial_update", caller, pk, req,
                            401, {}, {}, {})
        /\ UNCHANGED store
    ELSE IF pk \notin DOMAIN recipes THEN
        /\ last' = Response("recipe_partial_update", caller, pk, req,
                            HTTP_404_NOT_FOUND, {}, {}, {})
        /\ UNCHANGED store
    ELSE IF ~IsAuthorOrReadOnly("PATCH", recipes[pk].author, caller) THEN
        /\ last' = Response("recipe_partial_update", caller, pk, req,
                            HTTP_403_FORBIDDEN, {}, {}, {})
        /\ UNCHANGED store
    ELSE LET field_errors == PartialFieldErrors(req)
             errors == IF field_errors # {} THEN field_errors
                       ELSE IF Validate(req) # "" THEN {Validate(req)}
                       ELSE {}
         IN IF errors # {} THEN
                /\ last' = Response("recipe_partial_update", caller, pk, req,
                                    HTTP_400_BAD_REQUEST, errors,
                                    ErrorIds(req, errors), {})
                /\ UNCHANGED store
            ELSE
                /\ recipes' = [recipes EXCEPT ![pk] =
                        [author |-> @.author, name |-> req.name,
                         image |-> req.image,
                         cooking_time |-> req.cooking_time]]
                /\ recipe_ingredients' =
                        UpdateIngredients(recipe_ingredients, pk, req.ingredients)
                /\ last' = Response("recipe_partial_update", caller, pk, req,
                                    200, {}, {}, {})
                /\ UNCHANGED <<ingredient_catalog, next_ingredient_id, inflight,
                               users, next_user_id, next_recipe_id, favorites,
                               shopping_carts, subscriptions>>

\* RecipeResponseSerializer: the recipe with its ingredients_amounts rows
RecipeDetail(caller, pk) ==
    [id |-> pk, author |-> recipes[pk].author, name |-> recipes[pk].name,
     image |-> recipes[pk].image, cooking_time |-> recipes[pk].cooking_time,
     ingredients |-> IngredientsOf(recipe_ingredients, pk),
     is_favorited |->
        /\ caller \in DOMAIN users
        /\ \E row \in favorites : row.recipe = pk /\ row.user = caller,
     is_in_shopping_cart |->
        /\ caller \in DOMAIN users
        /\ \E row \in shopping_carts : row.recipe = pk /\ row.user = caller]

\* GET /recipes/{pk}/ : RecipeViewSet.retrieve, open to everyone
RecipeRetrieve(caller, pk) ==
    /\ last' = IF pk \notin DOMAIN recipes
                 THEN Response("recipe_retrieve", caller, pk, NoRequest,
                               HTTP_404_NOT_FOUND, {}, {}, {})
                 ELSE Response("recipe_retrieve", caller, pk, NoRequest,
                               200, {}, {}, {RecipeDetail(caller, pk)})
    /\ UNCHANGED store

\* a foreign key that keeps the rows of a deleted target
CascadeNone(table, field, deleted) == table

\* on_delete=models.CASCADE: the rows whose foreign key `field` refers to a
\* deleted row are deleted with it
Cascade(table, field, deleted) == {row \in table : row[field] \notin deleted}

\* the rows of a table (a function from pk) without the deleted pks
WithoutRows(table, deleted) ==
    [pk \in DOMAIN table \ deleted |-> table[pk]]

\* DELETE /recipes/{pk}/ : RecipeViewSet.destroy
RecipeDestroy(caller, pk) ==
    IF caller \notin DOMAIN users THEN
        /\ last' = Response("recipe_destroy", caller, pk, NoRequest,
                            401, {}, {}, {})
        /\ UNCHANGED store
    ELSE IF pk \notin DOMAIN recipes THEN
        /\ last' = Response("recipe_destroy", caller, pk, NoRequest,
                            HTTP_404_NOT_FOUND, {}, {}, {})
        /\ UNCHANGED store
    ELSE IF ~IsAuthorOrReadOnly("DELETE", recipes[pk].author, caller) THEN
        /\ last' = Response("recipe_destroy", caller, pk, NoRequest,
                            HTTP_403_FORBIDDEN, {}, {}, {})
        /\ UNCHANGED store
    ELSE
        /\ recipes' = WithoutRows(recipes, {pk})
        /\ recipe_ingredients' = Cascade(recipe_ingredients, "recipe", {pk})
        /\ favorites' = Cascade(favorites, "recipe", {pk})
        /\ shopping_carts' = Cascade(shopping_carts, "recipe", {pk})
        /\ last' = Response("recipe_destroy", caller, pk, NoRequest,
                            HTTP_204_NO_CONTENT, {}, {}, {})
        /\ UNCHANGED <<ingredient_catalog, next_ingredient_id, inflight,
                       users, next_user_id, next_recipe_id, subscriptions>>

----------------------------------------------------------------------------
(* Favorite / ShoppingList relations *)

\* FavoriteResponseSerializer: the short recipe summary
RecipeSummary(pk) ==
    [id |-> pk, name |-> recipes[pk].name, image |-> recipes[pk].image,
     cooking_time |-> recipes[pk].cooking_time]

\* validate() without the membership check
RelationValidateNone(table, user, recipe) == {}

\* FavoriteCreateSerializer / ShoppingListCreateSerializer .validate
RelationValidate(table, user, recipe) ==
    IF \E row \in table : row.user = user /\ row.recipe = recipe
        THEN {"already in relation"}
        ELSE {}

\* a create that inserts the recipe for every user
RelationCreateForEveryUser(table, user, recipe) ==
    table \cup {[user |-> u, recipe |-> recipe] : u \in DOMAIN users}

\* FavoriteCreateSerializer / ShoppingListCreateSerializer .create
\* (get_or_create on the user's related manager)
RelationCreate(table, user, recipe) ==
    IF \E row \in table : row.user = user /\ row.recipe = recipe
        THEN table
        ELSE table \cup {[user |-> user, recipe |-> recipe]}

\* favorite / shopping_cart followed by _add_recipe_to_relation:
\* the response and the table after the request
AddRecipeToRelation(op, table, caller, pk) ==
    IF caller = Anon THEN
        [table |-> table,
         resp |-> Response(op, caller, pk, NoRequest, 401, {}, {}, {})]
    ELSE IF pk \notin DOMAIN recipes THEN
        [table |-> table,
         resp |-> Response(op, caller, pk, NoRequest, HTTP_404_NOT_FOUND,
                           {}, {}, {})]
    ELSE IF RelationValidate(table, caller, pk) # {} THEN
        [table |-> table,
         resp |-> Response(op, caller, pk, NoRequest, HTTP_400_BAD_REQUEST,
                           RelationValidate(table, caller, pk), {}, {})]
    ELSE
        [table |-> RelationCreate(table, caller, pk),
         resp |-> Response(op, caller, pk, NoRequest, HTTP_201_CREATED,
                           {}, {}, {RecipeSummary(pk)})]

\* _remove_recipe_from_relation looking the row up by recipe alone
RemoveRecipeFromRelationAnyUser(op, table, caller, pk) ==
    IF caller = Anon THEN
        [table |-> table,
         resp |-> Response(op, caller, pk, NoRequest, 401, {}, {}, {})]
    ELSE IF ~ \E row \in table : row.recipe = pk THEN
        [table |-> table,
         resp |-> Response(op, caller, pk, NoRequest, HTTP_404_NOT_FOUND,
                           {"not in relation"}, {}, {})]
    ELSE
        [table |-> {row \in table : row.recipe # pk},
         resp |-> Response(op, caller, pk, NoRequest, HTTP_204_NO_CONTENT,
                           {}, {}, {})]

\* _remove_recipe_from_relation: the response and the table after the request
RemoveRecipeFromRelation(op, table, caller, pk) ==
    IF caller = Anon THEN
        [table |-> table,
         resp |-> Response(op, caller, pk, NoRequest, 401, {}, {}, {})]
    ELSE IF ~ \E row \in table : row.user = caller /\ row.recipe = pk THEN
        [table |-> table,
         resp |-> Response(op, caller, pk, NoRequest, HTTP_404_NOT_FOUND,
                           {"not in relation"}, {}, {})]
    ELSE
        [table |-> {row \in table : ~(row.user = caller /\ row.recipe = pk)},
         resp |-> Response(op, caller, pk, NoRequest, HTTP_204_NO_CONTENT,
                           {}, {}, {})]

\* POST /recipes/{pk}/favorite/
Favorite(caller, pk) ==
    LET r == AddRecipeToRelation("favorite", favorites, caller, pk)
    IN  /\ favorites' = r.table
        /\ last' = r.resp
        /\ UNCHANGED <<ingredient_catalog, next_ingredient_id, inflight,
                       users, next_user_id, recipes, next_recipe_id,
                       recipe_ingredients, shopping_carts, subscriptions>>

\* DELETE /recipes/{pk}/favorite/
RemoveFavorite(caller, pk) ==
    LET r == RemoveRecipeFromRelation("remove_favorite", favorites, caller, pk)
    IN  /\ favorites' = r.table
        /\ last' = r.resp
        /\ UNCHANGED <<ingredient_catalog, next_ingredient_id, inflight,
                       users, next_user_id, recipes, next_recipe_id,
                       recipe_ingredients, shopping_carts, subscriptions>>

\* POST /recipes/{pk}/shopping_cart/
ShoppingCart(caller, pk) ==
    LET r == AddRecipeToRelation("shopping_cart", shopping_carts, caller, pk)
    IN  /\ shopping_carts' = r.table
        /\ last' = r.resp
        /\ UNCHANGED <<ingredient_catalog, next_ingredient_id, inflight,
                       users, next_user_id, recipes, next_recipe_id,
                       recipe_ingredients, favorites, subscriptions>>

\* DELETE /recipes/{pk}/shopping_cart/
RemoveShoppingCart(caller, pk) ==
    LET r == RemoveRecipeFromRelation("remove_shopping_cart", shopping_carts,
                                      caller, pk)
    IN  /\ shopping_carts' = r.table
        /\ last' = r.resp
        /\ UNCHANGED <<ingredient_catalog, next_ingredient_id, inflight,
                       users, next_user_id, recipes, next_recipe_id,
                       recipe_ingredients, favorites, subscriptions>>

----------------------------------------------------------------------------
(* Shopping-list download *)

\* the join without the filter on the cart's user
CartJoinAnyUser(user) ==
    {j \in recipe_ingredients \X shopping_carts : j[2].recipe = j[1].recipe}

\* RecipeIngredient.objects.filter(recipe__in_shopping_carts__user=user):
\* the join of RecipeIngredient with ShoppingList over the recipe
CartJoin(user) ==
    {j \in recipe_ingredients \X shopping_carts :
        j[2].recipe = j[1].recipe /\ j[2].user = user}

\* .values("ingredient__name", "ingredient__measurement_unit"): the group key
GroupKey(row) ==
    <<ingredient_catalog[row.ingredient].name,
      ingredient_catalog[row.ingredient].measurement_unit>>

\* .annotate(total_amount=Sum("amount")): one row per group of the join
AggregatedIngredients(user) ==
    LET joined == CartJoin(user)
        groups == {GroupKey(j[1]) : j \in joined}
        members(g) == {j \in joined : GroupKey(j[1]) = g}
    IN  {[ingredient__name |-> g[1],
          ingredient__measurement_unit |-> g[2],
          total_amount |-> SumOver(members(g),
                                   [j \in members(g) |-> j[1].amount])]
         : g \in groups}

\* _ingredients_to_txt_response: the line "name-total(unit)" of one row
TxtLine(ingredient) ==
    <<ingredient.ingredient__name, "-", ingredient.total_amount,
      "(", ingredient.ingredient__measurement_unit, ")">>

\* GET /recipes/download_shopping_cart/ : get_permissions answers AllowAny for
\* this action, so an anonymous request reaches the query, whose user lookup
\* raises on AnonymousUser
DownloadShoppingCart(caller) ==
    /\ last' = IF caller = Anon
                 THEN Response("download_shopping_cart", caller, 0, NoRequest,
                               500, {}, {}, {})
                 ELSE Response("download_shopping_cart", caller, 0, NoRequest,
                               200, {}, {},
                               {TxtLine(i) : i \in AggregatedIngredients(caller)})
    /\ UNCHANGED store

----------------------------------------------------------------------------
(* Recipe list *)

\* the query parameters of a list request
ListParams(author, is_favorited, is_in_shopping_cart) ==
    [author |-> author, is_favorited |-> is_favorited,
     is_in_shopping_cart |-> is_in_shopping_cart]

\* Recipe.objects.filter(<relation>__user=user).distinct()
RecipesRelatedTo(table, user) ==
    {pk \in DOMAIN recipes :
        \E row \in table : row.user = user /\ row.recipe = pk}

\* GET /recipes/ : RecipeViewSet.list builds its queryset from the two flags
\* alone and serializes it; filter_queryset, and with it RecipeFilter, is
\* not called
RecipeList(caller, params) ==
    LET is_authenticated == caller \in DOMAIN users
        queryset ==
            IF params.is_in_shopping_cart = "1" THEN
                IF ~is_authenticated THEN {}
                ELSE RecipesRelatedTo(shopping_carts, caller)
            ELSE IF params.is_favorited = "1" THEN
                IF ~is_authenticated THEN {}
                ELSE RecipesRelatedTo(favorites, caller)
            ELSE DOMAIN recipes
    IN  /\ last' = Response("recipe_list", caller, 0, params, 200, {}, {},
                            queryset)
        /\ UNCHANGED store

----------------------------------------------------------------------------
(* Subscriptions *)

\* an existence test that finds no row
IsSubscribedNever(table, user, author) == FALSE

\* user.subscriptions.filter(author=author).exists()
IsSubscribed(table, user, author) ==
    \E row \in table : row.subscriber = user /\ row.author = author

\* validate() without the check against subscribing to oneself
SubscriptionValidateNoSelfCheck(table, user, author) ==
    IF IsSubscribed(table, user, author)
        THEN {"already subscribed"}
    ELSE {}

\* CreateSubscriptionSerializer.validate
SubscriptionValidate(table, user, author) ==
    IF user = author THEN {"cannot subscribe to yourself"}
    ELSE IF IsSubscribed(table, user, author)
        THEN {"already subscribed"}
    ELSE {}

\* subscription.delete() removing every row of the subscriber
SubscriptionDeleteAllOfSubscriber(table, user, author) ==
    {row \in table : row.subscriber # user}

\* user.subscriptions.filter(author=author).delete()
SubscriptionDelete(table, user, author) ==
    {row \in table : ~(row.subscriber = user /\ row.author = author)}

\* CreateSubscriptionSerializer.create
SubscriptionCreate(table, user, author) ==
    table \cup {[author |-> author, subscriber |-> user]}

\* POST /users/{pk}/subscribe/
Subscribe(caller, pk) ==
    /\ UNCHANGED <<ingredient_catalog, next_ingredient_id, inflight,
                   users, next_user_id, recipes, next_recipe_id,
                   recipe_ingredients, favorites, shopping_carts>>
    /\ IF caller = Anon THEN
            /\ last' = Response("subscribe", caller, pk, NoRequest, 401,
                                {}, {}, {})
            /\ UNCHANGED subscriptions
       ELSE IF pk \notin DOMAIN users THEN
            /\ last' = Response("subscribe", caller, pk, NoRequest,
                                HTTP_404_NOT_FOUND, {}, {}, {})
            /\ UNCHANGED subscriptions
       ELSE IF IsSubscribed(subscriptions, caller, pk) THEN
            /\ last' = Response("subscribe", caller, pk, NoRequest,
                                HTTP_400_BAD_REQUEST, {"already subscribed"},
                                {}, {})
            /\ UNCHANGED subscriptions
       ELSE IF SubscriptionValidate(subscriptions, caller, pk) # {} THEN
            /\ last' = Response("subscribe", caller, pk, NoRequest,
                                HTTP_400_BAD_REQUEST,
                                SubscriptionValidate(subscriptions, caller, pk),
                                {}, {})
            /\ UNCHANGED subscriptions
       ELSE
            /\ subscriptions' = SubscriptionCreate(subscriptions, caller, pk)
            /\ last' = Response("subscribe", caller, pk, NoRequest,
                                HTTP_201_CREATED, {}, {}, {})

\* DELETE /users/{pk}/subscribe/
Unsubscribe(caller, pk) ==
    /\ UNCHANGED <<ingredient_catalog, next_ingredient_id, inflight,
                   users, next_user_id, recipes, next_recipe_id,
                   recipe_ingredients, favorites, shopping_carts>>
    /\ IF caller = Anon THEN
            /\ last' = Response("unsubscribe", caller, pk, NoRequest, 401,
                                {}, {}, {})
            /\ UNCHANGED subscriptions
       ELSE IF pk \notin DOMAIN users THEN
            /\ last' = Response("unsubscribe", caller, pk, NoRequest,
                                HTTP_404_NOT_FOUND, {}, {}, {})
            /\ UNCHANGED subscriptions
       ELSE IF ~IsSubscribed(subscriptions, caller, pk) THEN
            /\ last' = Response("unsubscribe", caller, pk, NoRequest,
                                HTTP_400_BAD_REQUEST, {"not subscribed"}, {}, {})
            /\ UNCHANGED subscriptions
       ELSE
            /\ subscriptions' = SubscriptionDelete(subscriptions, caller, pk)
            /\ last' = Response("unsubscribe", caller, pk, NoRequest,
                                HTTP_204_NO_CONTENT, {}, {}, {})

\* User.objects.filter(subscriptions__subscriber=user): "subscriptions" is
\* the reverse name of Subscription.subscriber, so the User table is joined
\* with the Subscription rows whose subscriber is that User row
SubscriptionsJoin(user) ==
    {j \in (DOMAIN users) \X subscriptions :
        j[2].subscriber = j[1] /\ j[2].subscriber = user}

\* the serialized queryset: each joined User pk with the number of times the
\* join yields it
SubscriptionsPage(user) ==
    LET joined == SubscriptionsJoin(user)
    IN  {<<pk, Cardinality({j \in joined : j[1] = pk})>> :
            pk \in {j[1] : j \in joined}}

\* GET /users/subscriptions/
MySubscriptions(caller) ==
    /\ last' = IF caller = Anon
                 THEN Response("my_subscriptions", caller, 0, NoRequest,
                               401, {}, {}, {})
                 ELSE Response("my_subscriptions", caller, 0, NoRequest,
                               200, {}, {}, SubscriptionsPage(caller))
    /\ UNCHANGED store

----------------------------------------------------------------------------
(* User accounts *)

\* the pks the User table hands out, in order
UserPks == <<"u1", "u2", "u3">>

\* an email address is the sequence of its characters
Email_u1 == <<"u", "1", "@", "f", ".", "g">>
Email_u2 == <<"u", "2", "@", "f", ".", "g">>
Email_u3 == <<"u", "3", "@", "f", ".", "g">>

\* the accounts of a running deployment
InitialUsers ==
    ("u1" :> [username |-> "u1", email |-> Email_u1, is_staff |-> FALSE]) @@
    ("u2" :> [username |-> "u2", email |-> Email_u2, is_staff |-> FALSE]) @@
    ("u3" :> [username |-> "u3", email |-> Email_u3, is_staff |-> TRUE])

\* str.lower() over the letters
UpperLetters ==
    <<"A", "B", "C", "D", "E", "F", "G", "H", "I", "J", "K", "L", "M",
      "N", "O", "P", "Q", "R", "S", "T", "U", "V", "W", "X", "Y", "Z">>
LowerLetters ==
    <<"a", "b", "c", "d", "e", "f", "g", "h", "i", "j", "k", "l", "m",
      "n", "o", "p", "q", "r", "s", "t", "u", "v", "w", "x", "y", "z">>

LowerCase ==
    [c \in Range(UpperLetters) |->
        LowerLetters[CHOOSE i \in DOMAIN UpperLetters : UpperLetters[i] = c]]

LowerChar(c) == IF c \in DOMAIN LowerCase THEN LowerCase[c] ELSE c

Lower(value) == [i \in DOMAIN value |-> LowerChar(value[i])]

\* the positions of "@" in an address
AtPositions(value) == {i \in DOMAIN value : value[i] = "@"}

\* EmailField: an address has a local part, an "@" and a domain
IsEmail(value) ==
    \E i \in AtPositions(value) : i > 1 /\ i < Len(value)

\* BaseUserManager.normalize_email, called by create_user: the part after
\* the last "@" is lower-cased
NormalizeEmail(value) ==
    LET at == CHOOSE i \in AtPositions(value) :
                    \A j \in AtPositions(value) : j <= i
    IN  [i \in DOMAIN value |-> IF i > at THEN LowerChar(value[i])
                                            ELSE value[i]]

\* difflib.SequenceMatcher: a[i .. i+k-1] equals b[j .. j+k-1]
IsBlock(a, b, i, j, k) == \A d \in 0..(k - 1) : a[i + d] = b[j + d]

\* find_longest_match(alo, ahi, blo, bhi): the longest block common to
\* a[alo..ahi] and b[blo..bhi]; of the longest ones the one that starts
\* earliest in a, and of those the one that starts earliest in b
FindLongestMatch(a, b, alo, ahi, blo, bhi) ==
    LET blocks == {m \in (alo..ahi) \X (blo..bhi) \X (1..(ahi - alo + 1)) :
                        /\ m[1] + m[3] - 1 <= ahi
                        /\ m[2] + m[3] - 1 <= bhi
                        /\ IsBlock(a, b, m[1], m[2], m[3])}
    IN  IF blocks = {} THEN <<alo, blo, 0>>
        ELSE CHOOSE m \in blocks :
                \A n \in blocks :
                    \/ m[3] > n[3]
                    \/ m[3] = n[3] /\ m[1] < n[1]
                    \/ m[3] = n[3] /\ m[1] = n[1] /\ m[2] <= n[2]

RECURSIVE Matches(_, _, _, _, _, _)
\* get_matching_blocks: the total size of the blocks found by matching the
\* longest block first and then the pieces to its left and to its right
Matches(a, b, alo, ahi, blo, bhi) ==
    IF alo > ahi \/ blo > bhi THEN 0
    ELSE LET m == FindLongestMatch(a, b, alo, ahi, blo, bhi)
         IN  IF m[3] = 0 THEN 0
             ELSE m[3]
                  + Matches(a, b, alo, m[1] - 1, blo, m[2] - 1)
                  + Matches(a, b, m[1] + m[3], ahi, m[2] + m[3], bhi)

\* the threshold 0.8 of validate_email, in tenths
SimilarityTenths == 8

\* SequenceMatcher(None, a, b).ratio() >= 0.8, ratio being 2.0 * M / T
IsSimilar(a, b) ==
    LET total == Len(a) + Len(b)
    IN  IF total = 0 THEN TRUE
        ELSE 2 * Matches(a, b, 1, Len(a), 1, Len(b)) * 10 >=
                SimilarityTenths * total

\* the addresses of the registration requests
Email_ann == <<"a", "n", "n", "@", "x", ".", "i", "o">>
Email_ANN == <<"A", "n", "n", "@", "X", ".", "i", "o">>
Email_ann_ru == <<"a", "n", "n", "@", "x", ".", "r", "u">>
Email_a_ab == <<"a", "@", "a", "b", ".", "i", "o">>
Email_ab_aa == <<"a", "b", "@", "a", "a", ".", "i", "o">>
Email_invalid == <<"a", "n", "n">>

RequestEmailSeq ==
    <<Email_ann, Email_ANN, Email_ann_ru, Email_a_ab, Email_ab_aa,
      Email_invalid>>

RequestEmails == Range(RequestEmailSeq)

LowerRequestEmails == {Lower(e) : e \in RequestEmails}

\* the pairs of lower-cased request addresses IsSimilar holds of, computed
\* once
SimilarRequestEmails ==
    LET n == Len(RequestEmailSeq)
        pairs == [k \in 1..(n * n) |->
                    <<Lower(RequestEmailSeq[((k - 1) \div n) + 1]),
                      Lower(RequestEmailSeq[((k - 1) % n) + 1])>>]
        Test(p) == IsSimilar(p[1], p[2])
    IN  SelectSeq(pairs, Test)

\* a test that finds no address similar
IsSimilarNever(table, value) == FALSE

\* validate_email: some existing user's email is similar to the candidate
IsSimilarToExisting(table, value) ==
    \E pk \in DOMAIN table :
        LET email_lower == Lower(value)
            user_email == Lower(table[pk].email)
        IN  IF {email_lower, user_email} \subseteq LowerRequestEmails
                THEN \E k \in DOMAIN SimilarRequestEmails :
                        SimilarRequestEmails[k] = <<email_lower, user_email>>
                ELSE IsSimilar(email_lower, user_email)

\* usernames the RegexValidator rejects
InvalidUsernames == {"an n"}

\* the body of a registration or of a profile update
UserRequest(username, email) == [username |-> username, email |-> email]

\* an email key the request body does not carry
NoEmail == <<>>

\* UserRegistrationSerializer: the errors of its fields, all reported together
RegistrationErrors(table, req) ==
    (IF req.username \in InvalidUsernames THEN {"username: invalid"}
     ELSE IF \E pk \in DOMAIN table : table[pk].username = req.username
        THEN {"username: not unique"} ELSE {}) \cup
    (IF ~IsEmail(req.email) THEN {"email: invalid"}
     ELSE IF IsSimilarToExisting(table, req.email) THEN {"email: similar"}
     ELSE {})

\* POST /users/ : UserViewSet.create, UserRegistrationSerializer.create
Register(req) ==
    LET errors == RegistrationErrors(users, req)
    IN  IF errors # {} THEN
            /\ last' = Response("register", Anon, 0, req,
                                HTTP_400_BAD_REQUEST, errors, {}, {})
            /\ UNCHANGED store
        ELSE
            /\ next_user_id \in DOMAIN UserPks
            /\ users' = users @@ (UserPks[next_user_id] :>
                    [username |-> req.username,
                     email |-> NormalizeEmail(req.email),
                     is_staff |-> FALSE])
            /\ next_user_id' = next_user_id + 1
            /\ last' = Response("register", Anon, UserPks[next_user_id], req,
                                HTTP_201_CREATED, {}, {}, {})
            /\ UNCHANGED <<ingredient_catalog, next_ingredient_id, inflight,
                           recipes, next_recipe_id, recipe_ingredients,
                           favorites, shopping_carts, subscriptions>>

\* UserProfileSerializer(user, data, partial=True): the model's username is
\* unique (the instance itself excluded), its email is not
ProfileErrors(table, pk, req) ==
    (IF req.username = NoValue THEN {}
     ELSE IF req.username \in InvalidUsernames THEN {"username: invalid"}
     ELSE IF \E other \in DOMAIN table \ {pk} :
                table[other].username = req.username
        THEN {"username: not unique"} ELSE {}) \cup
    (IF req.email # NoEmail /\ ~IsEmail(req.email) THEN {"email: invalid"}
     ELSE {})

\* PATCH /users/{pk}/update_profile/ ; a request whose credentials belong to
\* no account is not authenticated
UpdateProfile(caller, pk, req) ==
    IF caller \notin DOMAIN users THEN
        /\ last' = Response("update_profile", caller, pk, req, 401, {}, {}, {})
        /\ UNCHANGED store
    ELSE IF pk \notin DOMAIN users THEN
        /\ last' = Response("update_profile", caller, pk, req,
                            HTTP_404_NOT_FOUND, {}, {}, {})
        /\ UNCHANGED store
    ELSE IF caller # pk THEN
        /\ last' = Response("update_profile", caller, pk, req,
                            HTTP_403_FORBIDDEN, {}, {}, {})
        /\ UNCHANGED store
    ELSE LET errors == ProfileErrors(users, pk, req)
         IN IF errors # {} THEN
                /\ last' = Response("update_profile", caller, pk, req,
                                    HTTP_400_BAD_REQUEST, errors, {}, {})
                /\ UNCHANGED store
            ELSE
                /\ users' = [users EXCEPT ![pk] =
                        [username |-> IF req.username = NoValue
                                        THEN @.username ELSE req.username,
                         email |-> IF req.email = NoEmail
                                        THEN @.email ELSE req.email,
                         is_staff |-> @.is_staff]]
                /\ last' = Response("update_profile", caller, pk, req,
                                    200, {}, {}, {})
                /\ UNCHANGED <<ingredient_catalog, next_ingredient_id, inflight,
                               next_user_id, recipes, next_recipe_id,
                               recipe_ingredients, favorites, shopping_carts,
                               subscriptions>>

\* DELETE /users/{pk}/delete-user/ : IsAuthenticated and IsAdminOnly are
\* checked before the user is looked up; user.delete() cascades to the
\* user's recipes and rows, and from the recipes to their rows
DeleteUser(caller, pk) ==
    IF caller \notin DOMAIN users THEN
        /\ last' = Response("delete_user", caller, pk, NoRequest,
                            401, {}, {}, {})
        /\ UNCHANGED store
    ELSE IF ~users[caller].is_staff THEN
        /\ last' = Response("delete_user", caller, pk, NoRequest,
                            HTTP_403_FORBIDDEN, {}, {}, {})
        /\ UNCHANGED store
    ELSE IF pk \notin DOMAIN users THEN
        /\ last' = Response("delete_user", caller, pk, NoRequest,
                            HTTP_404_NOT_FOUND, {}, {}, {})
        /\ UNCHANGED store
    ELSE LET deleted_recipes ==
                {r \in DOMAIN recipes : recipes[r].author = pk}
         IN /\ users' = WithoutRows(users, {pk})
            /\ recipes' = WithoutRows(recipes, deleted_recipes)
            /\ recipe_ingredients' =
                    Cascade(recipe_ingredients, "recipe", deleted_recipes)
            /\ favorites' = Cascade(Cascade(favorites, "user", {pk}),
                                    "recipe", deleted_recipes)
            /\ shopping_carts' = Cascade(Cascade(shopping_carts, "user", {pk}),
                                         "recipe", deleted_recipes)
            /\ subscriptions' = Cascade(Cascade(subscriptions, "author", {pk}),
                                        "subscriber", {pk})
            /\ last' = Response("delete_user", caller, pk, NoRequest,
                                HTTP_204_NO_CONTENT, {}, {}, {})
            /\ UNCHANGED <<ingredient_catalog, next_ingredient_id, inflight,
                           next_user_id, next_recipe_id>>

\* POST /auth/token/login/ with the right password: User.objects.get(email=)
\* raises MultipleObjectsReturned, which post() does not catch, when several
\* rows carry the email
ObtainAuthToken(email) ==
    LET found == {pk \in DOMAIN users : users[pk].email = email}
    IN  /\ last' = Response("login", Anon, 0, UserRequest(NoValue, email),
                            IF found = {} THEN HTTP_400_BAD_REQUEST
                            ELSE IF Cardinality(found) > 1 THEN 500
                            ELSE 200,
                            {}, {}, found)
        /\ UNCHANGED store

----------------------------------------------------------------------------
(* IngredientViewSet: the ingredient catalog *)

\* has_permission() letting every caller through
IsAdminOnlyAllowAny(method, caller) == TRUE

\* IsAdminOnly.has_permission(): safe methods, or an authenticated staff user
IsAdminOnly(method, caller) ==
    \/ method \in SAFE_METHODS
    \/ caller \in DOMAIN users /\ users[caller].is_staff

\* IngredientViewSet.initial(): a write the permission refuses is answered
\* with MethodNotAllowed before the object is looked up
IngredientWriteRefused(method, caller) ==
    /\ ~IsAdminOnly(method, caller)
    /\ method \in {"POST", "PUT", "PATCH", "DELETE"}

\* an ingredient as submitted to ShortIngredientsSerializer
IngredientInput(name, measurement_unit) ==
    [name |-> name, measurement_unit |-> measurement_unit]

\* ShortIngredientsSerializer: the representation of a row
IngredientDoc(pk) ==
    [id |-> pk, name |-> ingredient_catalog[pk].name,
     measurement_unit |-> ingredient_catalog[pk].measurement_unit]

\* the required fields a submitted ingredient lacks
IngredientFieldErrors(input) ==
    (IF input.name = NoValue THEN {"name: required"} ELSE {}) \cup
    (IF input.measurement_unit = NoValue
        THEN {"measurement_unit: required"} ELSE {})

\* unique_ingredient_unit: another row holds the pair (name, measurement_unit)
IngredientPairTaken(input, pk) ==
    \E other \in IngredientIds \ {pk} : ingredient_catalog[other] = input

\* the answers to a write that repeats a stored pair: 400 where the
\* serializer carries a validator for the constraint, else the
\* IntegrityError of the INSERT or UPDATE (500)
PairTakenStatuses == {HTTP_400_BAD_REQUEST, 500}

\* the pks the catalog may hand out to new rows
NewIngredientIds == {4}

\* POST /api/ingredients/
IngredientCreate(caller, input) ==
    /\ next_ingredient_id \in NewIngredientIds
    /\ IF IngredientWriteRefused("POST", caller) THEN
            /\ last' = Response("ingredient_create", caller, 0, NoRequest,
                                HTTP_405_METHOD_NOT_ALLOWED, {}, {}, {})
            /\ UNCHANGED store
       ELSE IF IngredientFieldErrors(input) # {} THEN
            /\ last' = Response("ingredient_create", caller, 0, NoRequest,
                                HTTP_400_BAD_REQUEST,
                                IngredientFieldErrors(input), {}, {})
            /\ UNCHANGED store
       ELSE IF IngredientPairTaken(input, 0) THEN
            /\ \E status \in PairTakenStatuses :
                    last' = Response("ingredient_create", caller, 0,
                                     NoRequest, status, {}, {}, {})
            /\ UNCHANGED store
       ELSE
            /\ ingredient_catalog' =
                    (next_ingredient_id :> input) @@ ingredient_catalog
            /\ next_ingredient_id' = next_ingredient_id + 1
            /\ last' = Response("ingredient_create", caller,
                                next_ingredient_id, NoRequest,
                                HTTP_201_CREATED, {}, {},
                                {[id |-> next_ingredient_id,
                                  name |-> input.name,
                                  measurement_unit |->
                                        input.measurement_unit]})
            /\ UNCHANGED <<inflight, users, next_user_id, recipes,
                           next_recipe_id, recipe_ingredients, favorites,
                           shopping_carts, subscriptions>>

\* the write of an update: the row takes the validated fields
IngredientSave(op, caller, pk, input) ==
    IF IngredientPairTaken(input, pk) THEN
        /\ \E status \in PairTakenStatuses :
                last' = Response(op, caller, pk, NoRequest, status,
                                 {}, {}, {})
        /\ UNCHANGED store
    ELSE
        /\ ingredient_catalog' = [ingredient_catalog EXCEPT ![pk] = input]
        /\ last' = Response(op, caller, pk, NoRequest, 200, {}, {},
                            {[id |-> pk, name |-> input.name,
                              measurement_unit |-> input.measurement_unit]})
        /\ UNCHANGED <<next_ingredient_id, inflight, users, next_user_id,
                       recipes, next_recipe_id, recipe_ingredients,
                       favorites, shopping_carts, subscriptions>>

\* PUT /api/ingredients/{pk}/
IngredientUpdate(caller, pk, input) ==
    IF IngredientWriteRefused("PUT", caller) THEN
        /\ last' = Response("ingredient_update", caller, pk, NoRequest,
                            HTTP_405_METHOD_NOT_ALLOWED, {}, {}, {})
        /\ UNCHANGED store
    ELSE IF pk \notin IngredientIds THEN
        /\ last' = Response("ingredient_update", caller, pk, NoRequest,
                            HTTP_404_NOT_FOUND, {}, {}, {})
        /\ UNCHANGED store
    ELSE IF IngredientFieldErrors(input) # {} THEN
        /\ last' = Response("ingredient_update", caller, pk, NoRequest,
                            HTTP_400_BAD_REQUEST,
                            IngredientFieldErrors(input), {}, {})
        /\ UNCHANGED store
    ELSE IngredientSave("ingredient_update", caller, pk, input)

\* PATCH /api/ingredients/{pk}/: a field that is not submitted keeps its
\* stored value
IngredientPartialUpdate(caller, pk, input) ==
    IF IngredientWriteRefused("PATCH", caller) THEN
        /\ last' = Response("ingredient_partial_update", caller, pk,
                            NoRequest, HTTP_405_METHOD_NOT_ALLOWED,
                            {}, {}, {})
        /\ UNCHANGED store
    ELSE IF pk \notin IngredientIds THEN
        /\ last' = Response("ingredient_partial_update", caller, pk,
                            NoRequest, HTTP_404_NOT_FOUND, {}, {}, {})
        /\ UNCHANGED store
    ELSE IngredientSave("ingredient_partial_update", caller, pk,
            IngredientInput(
                IF input.name = NoValue
                    THEN ingredient_catalog[pk].name ELSE input.name,
                IF input.measurement_unit = NoValue
                    THEN ingredient_catalog[pk].measurement_unit
                    ELSE input.measurement_unit))

\* DELETE /api/ingredients/{pk}/: the RecipeIngredient rows of the
\* ingredient go with it (on_delete=CASCADE)
IngredientDestroy(caller, pk) ==
    IF IngredientWriteRefused("DELETE", caller) THEN
        /\ last' = Response("ingredient_destroy", caller, pk, NoRequest,
                            HTTP_405_METHOD_NOT_ALLOWED, {}, {}, {})
        /\ UNCHANGED store
    ELSE IF pk \notin IngredientIds THEN
        /\ last' = Response("ingredient_destroy", caller, pk, NoRequest,
                            HTTP_404_NOT_FOUND, {}, {}, {})
        /\ UNCHANGED store
    ELSE
        /\ ingredient_catalog' = WithoutRows(ingredient_catalog, {pk})
        /\ recipe_ingredients' =
                Cascade(recipe_ingredients, "ingredient", {pk})
        /\ last' = Response("ingredient_destroy", caller, pk, NoRequest,
                            HTTP_204_NO_CONTENT, {}, {}, {})
        /\ UNCHANGED <<next_ingredient_id, inflight, users, next_user_id,
                       recipes, next_recipe_id, favorites, shopping_carts,
                       subscriptions>>

\* the letters of the names and of the name queries
Spelling ==
    ("flour" :> <<"f", "l", "o", "u", "r">>) @@
    ("egg" :> <<"e", "g", "g">>) @@
    ("salt" :> <<"s", "a", "l", "t">>) @@
    ("FL" :> <<"F", "L">>) @@
    ("eggs" :> <<"e", "g", "g", "s">>) @@
    ("s" :> <<"s">>)

\* lookup_expr="istartswith": value begins with prefix, case ignored
IStartsWith(value, prefix) ==
    /\ Len(Spelling[prefix]) <= Len(Spelling[value])
    /\ \A i \in 1..Len(Spelling[prefix]) :
            Lower(Spelling[value])[i] = Lower(Spelling[prefix])[i]

\* IngredientFilter: the rows whose name begins with the query; every row
\* without a query
IngredientFilter(name) ==
    {pk \in IngredientIds :
        name = NoValue \/ IStartsWith(ingredient_catalog[pk].name, name)}

\* GET /api/ingredients/?name=...; the order of the rows is left out
IngredientList(caller, name) ==
    /\ last' = Response("ingredient_list", caller, 0, NoRequest, 200,
                        {}, {},
                        {IngredientDoc(pk) : pk \in IngredientFilter(name)})
    /\ UNCHANGED store

\* GET /api/ingredients/{pk}/
IngredientRetrieve(caller, pk) ==
    /\ IF pk \notin IngredientIds THEN
            last' = Response("ingredient_retrieve", caller, pk, NoRequest,
                             HTTP_404_NOT_FOUND, {}, {}, {})
       ELSE last' = Response("ingredient_retrieve", caller, pk, NoRequest,
                             200, {}, {}, {IngredientDoc(pk)})
    /\ UNCHANGED store

----------------------------------------------------------------------------
(* Requests served statement by statement *)

\* The handlers above serve a request as a whole.  The server serves requests
\* side by side; the source takes no lock and opens no transaction around a
\* handler, so the database statements of two requests interleave.  A slot
\* of `inflight` holds one such request: its position pc, the instance
\* get_object() loaded for it and, once it is answered, its status.

\* the tables of the database
database == <<users, next_user_id, ingredient_catalog, next_ingredient_id,
              recipes, next_recipe_id, recipe_ingredients, favorites,
              shopping_carts, subscriptions>>

RequestSlots == {1, 2, 3}

InFlight(op, caller, pk, req, pc, instance, rows_before, integrity_error, status) ==
    [op |-> op, caller |-> caller, pk |-> pk, req |-> req, pc |-> pc,
     instance |-> instance, rows_before |-> rows_before,
     integrity_error |-> integrity_error, status |-> status]

\* a request that loaded no Recipe instance
NoInstance ==
    [author |-> Anon, name |-> NoValue, image |-> NoValue, cooking_time |-> 0]

\* a slot that holds no request
Idle == InFlight("none", Anon, 0, NoRequest, "idle", NoInstance, {}, FALSE, 0)

NoRequests == [s \in RequestSlots |-> Idle]

\* the request of slot s is answered
Answer(s, status, errors, doc) ==
    /\ inflight' = [inflight EXCEPT ![s].pc = "done", ![s].status = status]
    /\ last' = Response(inflight[s].op, inflight[s].caller, inflight[s].pk,
                        inflight[s].req, status, errors, {}, doc)

\* the request of slot s moves on to its next statement
Goto(s, pc) ==
    /\ inflight' = [inflight EXCEPT ![s].pc = pc]
    /\ UNCHANGED last

\* the requests that add a row to a relation
AddOps == {"favorite", "shopping_cart", "subscribe"}

\* the table an add request inserts into
AddTable(op) ==
    IF op = "favorite" THEN favorites
    ELSE IF op = "shopping_cart" THEN shopping_carts
    ELSE subscriptions

\* the row an add request inserts; a row written here carries its pk, so
\* that two rows of one pair are two rows (the handlers above leave the pk
\* of a relation row out)
AddRow(op, caller, pk, id) ==
    IF op = "subscribe" THEN [author |-> pk, subscriber |-> caller, id |-> id]
    ELSE [user |-> caller, recipe |-> pk, id |-> id]

\* the fields of the table's UniqueConstraint
UniqueFields(op) ==
    IF op = "subscribe" THEN {"author", "subscriber"} ELSE {"user", "recipe"}

\* the row of the foreign keys' targets exists
ForeignKeysHold(op, caller, pk) ==
    /\ caller \in DOMAIN users
    /\ IF op = "subscribe" THEN pk \in DOMAIN users ELSE pk \in DOMAIN recipes

\* AutoField: the pk of the next row of a table
NextRowId(table) ==
    LET ids == {row.id : row \in {r \in table : "id" \in DOMAIN r}}
    IN  IF ids = {} THEN 1
        ELSE 1 + CHOOSE i \in ids : \A j \in ids : j <= i

\* a table without a constraint: no INSERT fails
UniqueConstraintNone(table, row, fields) == FALSE

\* models.UniqueConstraint(fields=...): the INSERT of a row that agrees with
\* a stored row on the constraint's fields raises IntegrityError
ViolatesUniqueConstraint(table, row, fields) ==
    \E r \in table : \A f \in fields : r[f] = row[f]

\* a request arrives: IsAuthenticated, then get_object_or_404 on the recipe
\* (favorite, shopping_cart) or on the author (subscribe)
AddReceive(s, op, caller, pk) ==
    LET request(pc, status) ==
            InFlight(op, caller, pk, NoRequest, pc, NoInstance, {}, FALSE,
                     status)
        found == IF op = "subscribe" THEN pk \in DOMAIN users
                                     ELSE pk \in DOMAIN recipes
    IN  /\ inflight[s].pc = "idle"
        /\ UNCHANGED database
        /\ IF caller \notin DOMAIN users THEN
                /\ inflight' = [inflight EXCEPT ![s] = request("done", 401)]
                /\ last' = Response(op, caller, pk, NoRequest, 401,
                                    {}, {}, {})
           ELSE IF ~found THEN
                /\ inflight' = [inflight EXCEPT ![s] =
                                    request("done", HTTP_404_NOT_FOUND)]
                /\ last' = Response(op, caller, pk, NoRequest,
                                    HTTP_404_NOT_FOUND, {}, {}, {})
           ELSE
                /\ inflight' = [inflight EXCEPT ![s] =
                        request(IF op = "subscribe" THEN "check"
                                                    ELSE "validate", 0)]
                /\ UNCHANGED last

\* subscribe: the view's own user.subscriptions.filter(author).exists()
SubscribeCheck(s) ==
    LET r == inflight[s]
    IN  /\ r.pc = "check"
        /\ UNCHANGED database
        /\ IF IsSubscribed(subscriptions, r.caller, r.pk)
             THEN Answer(s, HTTP_400_BAD_REQUEST, {"already subscribed"}, {})
             ELSE Goto(s, "validate")

\* serializer.is_valid(raise_exception=True): the PrimaryKeyRelatedField
\* looks the target up, then validate() runs its existence check
AddValidate(s) ==
    LET r == inflight[s]
        errors ==
            IF r.op = "subscribe" THEN
                IF r.pk \notin DOMAIN users THEN {"author: does_not_exist"}
                ELSE SubscriptionValidate(subscriptions, r.caller, r.pk)
            ELSE
                IF r.pk \notin DOMAIN recipes THEN {"recipe: does_not_exist"}
                ELSE RelationValidate(AddTable(r.op), r.caller, r.pk)
    IN  /\ r.pc = "validate"
        /\ r.op \in AddOps
        /\ UNCHANGED database
        /\ IF errors # {}
             THEN Answer(s, HTTP_400_BAD_REQUEST, errors, {})
             ELSE Goto(s, IF r.op = "subscribe" THEN "insert" ELSE "get")

\* favorite, shopping_cart: the SELECT of get_or_create
AddGet(s) ==
    LET r == inflight[s]
    IN  /\ r.pc = "get"
        /\ UNCHANGED database
        /\ IF \E row \in AddTable(r.op) :
                    row.user = r.caller /\ row.recipe = r.pk
             THEN Goto(s, "respond")
             ELSE Goto(s, "insert")

\* the INSERT of get_or_create (favorite, shopping_cart) or of
\* Subscription.objects.create (subscribe).  get_or_create catches the
\* IntegrityError and returns the row that is there, raising it again when
\* there is none; create lets it propagate, and nothing in the view or the
\* serializer catches it.
AddInsert(s) ==
    LET r == inflight[s]
        table == AddTable(r.op)
        row == AddRow(r.op, r.caller, r.pk, NextRowId(table))
    IN  /\ r.pc = "insert"
        /\ UNCHANGED <<users, next_user_id, ingredient_catalog,
                       next_ingredient_id, recipes, next_recipe_id,
                       recipe_ingredients>>
        /\ IF ~ForeignKeysHold(r.op, r.caller, r.pk) THEN
                /\ UNCHANGED <<favorites, shopping_carts, subscriptions>>
                /\ inflight' = [inflight EXCEPT ![s].pc = "done",
                                                ![s].status = 500]
                /\ last' = Response(r.op, r.caller, r.pk, r.req, 500,
                                    {"IntegrityError"}, {}, {})
           ELSE IF ViolatesUniqueConstraint(table, row, UniqueFields(r.op)) THEN
                /\ UNCHANGED <<favorites, shopping_carts, subscriptions>>
                /\ IF r.op = "subscribe" THEN
                        /\ inflight' = [inflight EXCEPT
                                            ![s].pc = "done",
                                            ![s].integrity_error = TRUE,
                                            ![s].status = 500]
                        /\ last' = Response(r.op, r.caller, r.pk, r.req, 500,
                                            {"IntegrityError"}, {}, {})
                   ELSE
                        /\ inflight' = [inflight EXCEPT
                                            ![s].pc = "respond",
                                            ![s].integrity_error = TRUE]
                        /\ UNCHANGED last
           ELSE
                /\ favorites' = IF r.op = "favorite"
                                    THEN table \cup {row} ELSE favorites
                /\ shopping_carts' = IF r.op = "shopping_cart"
                                        THEN table \cup {row} ELSE shopping_carts
                /\ subscriptions' = IF r.op = "subscribe"
                                        THEN table \cup {row} ELSE subscriptions
                /\ Goto(s, "respond")

\* the response of an add request: _add_recipe_to_relation looks the recipe
\* up again and answers 201 with its summary; subscribe answers 201
AddRespond(s) ==
    LET r == inflight[s]
    IN  /\ r.pc = "respond"
        /\ r.op \in AddOps
        /\ UNCHANGED database
        /\ IF r.op = "subscribe"
             THEN Answer(s, HTTP_201_CREATED, {}, {})
           ELSE IF r.pk \notin DOMAIN recipes
             THEN Answer(s, HTTP_404_NOT_FOUND, {}, {})
             ELSE Answer(s, HTTP_201_CREATED, {}, {RecipeSummary(r.pk)})

\* PUT /recipes/{pk}/ arrives: IsAuthenticated, then get_object() loads the
\* instance and checks IsAuthorOrReadOnly; rows_before remembers the
\* recipe's (ingredient, amount) pairs of that moment for the claims
UpdateReceive(s, caller, pk, req) ==
    LET request(pc, status, instance, rows) ==
            InFlight("recipe_update", caller, pk, req, pc, instance, rows,
                     FALSE, status)
        rejected(status) ==
            /\ inflight' = [inflight EXCEPT ![s] =
                                request("done", status, NoInstance, {})]
            /\ last' = Response("recipe_update", caller, pk, req, status,
                                {}, {}, {})
    IN  /\ inflight[s].pc = "idle"
        /\ UNCHANGED database
        /\ IF caller \notin DOMAIN users THEN rejected(401)
           ELSE IF pk \notin DOMAIN recipes THEN rejected(HTTP_404_NOT_FOUND)
           ELSE IF ~IsAuthorOrReadOnly("PUT", recipes[pk].author, caller)
                THEN rejected(HTTP_403_FORBIDDEN)
           ELSE
                /\ inflight' = [inflight EXCEPT ![s] =
                        request("validate", 0, recipes[pk],
                                IngredientsOf(recipe_ingredients, pk))]
                /\ UNCHANGED last

\* serializer.is_valid(raise_exception=True)
UpdateValidate(s) ==
    LET r == inflight[s]
        errors == SerializerErrors(r.req)
    IN  /\ r.pc = "validate"
        /\ r.op = "recipe_update"
        /\ UNCHANGED database
        /\ IF errors # {} THEN
                /\ inflight' = [inflight EXCEPT
                                    ![s].pc = "done",
                                    ![s].status = HTTP_400_BAD_REQUEST]
                /\ last' = Response(r.op, r.caller, r.pk, r.req,
                                    HTTP_400_BAD_REQUEST, errors,
                                    ErrorIds(r.req, errors), {})
           ELSE Goto(s, "save")

\* RecipeSerializer.update: setattr of the validated fields on the loaded
\* instance, then instance.save(), which writes every field of the instance
\* (and inserts the row again should it be gone)
UpdateSave(s) ==
    LET r == inflight[s]
        row == [author |-> r.instance.author, name |-> r.req.name,
                image |-> IF r.req.image = NoValue THEN r.instance.image
                                                   ELSE r.req.image,
                cooking_time |-> r.req.cooking_time]
    IN  /\ r.pc = "save"
        /\ recipes' = (r.pk :> row) @@ recipes
        /\ Goto(s, "delete")
        /\ UNCHANGED <<users, next_user_id, ingredient_catalog,
                       next_ingredient_id, next_recipe_id, recipe_ingredients,
                       favorites, shopping_carts, subscriptions>>

\* _update_ingredients: recipe.ingredients_amounts.all().delete()
UpdateDelete(s) ==
    LET r == inflight[s]
    IN  /\ r.pc = "delete"
        /\ recipe_ingredients' =
                {row \in recipe_ingredients : row.recipe # r.pk}
        /\ Goto(s, "create")
        /\ UNCHANGED <<users, next_user_id, ingredient_catalog,
                       next_ingredient_id, recipes, next_recipe_id,
                       favorites, shopping_carts, subscriptions>>

\* _update_ingredients: self._create_ingredients(recipe, ingredients_data),
\* then the response
UpdateCreate(s) ==
    LET r == inflight[s]
    IN  /\ r.pc = "create"
        /\ recipe_ingredients' =
                CreateIngredients(recipe_ingredients, r.pk, r.req.ingredients)
        /\ Answer(s, 200, {}, {})
        /\ UNCHANGED <<users, next_user_id, ingredient_catalog,
                       next_ingredient_id, recipes, next_recipe_id,
                       favorites, shopping_carts, subscriptions>>

----------------------------------------------------------------------------
(* Initial states *)

NoResponse == Response("none", Anon, 0, NoRequest, 0, {}, {}, {})

\* a fresh deployment: the users and the catalog are loaded, nothing else
Init ==
    /\ ingredient_catalog = Catalog
    /\ next_ingredient_id = Cardinality(DOMAIN Catalog) + 1
    /\ inflight = NoRequests
    /\ users = InitialUsers
    /\ next_user_id = Len(UserPks) + 1
    /\ recipes = <<>>
    /\ next_recipe_id = 1
    /\ recipe_ingredients = {}
    /\ favorites = {}
    /\ shopping_carts = {}
    /\ subscriptions = {}
    /\ last = NoResponse

\* the RecipeIngredient tables a recipe may hold: at most one row per
\* ingredient (unique_recipe_ingredient), amounts within the validators' range
IngredientRows(recipe) ==
    {{[recipe |-> recipe, ingredient |-> i, amount |-> f[i]] : i \in DOMAIN f} :
        f \in UNION {[D -> 1..MaxAmount] :
                        D \in {D \in SUBSET IngredientIds :
                                    Cardinality(D) \in ListLengths}}}

\* a deployment without accounts
InitUsers ==
    /\ ingredient_catalog = Catalog
    /\ next_ingredient_id = Cardinality(DOMAIN Catalog) + 1
    /\ inflight = NoRequests
    /\ users = <<>>
    /\ next_user_id = 1
    /\ recipes = <<>>
    /\ next_recipe_id = 1
    /\ recipe_ingredients = {}
    /\ favorites = {}
    /\ shopping_carts = {}
    /\ subscriptions = {}
    /\ last = NoResponse

\* a database with one recipe and any legal RecipeIngredient rows for it
InitLoaded ==
    /\ ingredient_catalog = Catalog
    /\ next_ingredient_id = Cardinality(DOMAIN Catalog) + 1
    /\ inflight = NoRequests
    /\ users = InitialUsers
    /\ next_user_id = Len(UserPks) + 1
    /\ recipes = <<[author |-> "u1", name |-> "n", image |-> "img_a",
                    cooking_time |-> MIN_COOKING_TIME]>>
    /\ next_recipe_id = 2
    /\ recipe_ingredients \in IngredientRows(1)
    /\ favorites = {}
    /\ shopping_carts = {}
    /\ subscriptions = {}
    /\ last = NoResponse

\* a loaded database: the recipes exist with any legal RecipeIngredient rows
InitStore ==
    /\ ingredient_catalog = Catalog
    /\ next_ingredient_id = Cardinality(DOMAIN Catalog) + 1
    /\ inflight = NoRequests
    /\ users = InitialUsers
    /\ next_user_id = Len(UserPks) + 1
    /\ recipes = [pk \in RecipeIds |->
                    [author |-> "u1", name |-> "n", image |-> "img_a",
                     cooking_time |-> MIN_COOKING_TIME]]
    /\ next_recipe_id = Cardinality(RecipeIds) + 1
    /\ \E rows \in [RecipeIds -> UNION {IngredientRows(pk) : pk \in RecipeIds}] :
            /\ \A pk \in RecipeIds : rows[pk] \in IngredientRows(pk)
            /\ recipe_ingredients = UNION {rows[pk] : pk \in RecipeIds}
    /\ favorites = {}
    /\ shopping_carts = {}
    /\ subscriptions = {}
    /\ last = NoResponse

----------------------------------------------------------------------------
(* The requests the model enumerates *)

RecipeCallers == RecipeUsers \cup {Anon}

IngredientLists ==
    SeqsOf(IngredientItems(RequestIngredientIds, 1..MaxAmount), ListLengths)

\* image of a request: absent, the empty string, or a base64 data URI
ImageInputs == {NoValue, "", "img_a", "img_b"}

\* one valid ingredient list
OneIngredient == <<[id |-> 1, amount |-> 1]>>

\* recipe write requests: every ingredient list with an image, and one
\* ingredient list with every image
WriteRequests ==
    {RecipeRequest("n", ings, "img_a", MIN_COOKING_TIME) :
        ings \in IngredientLists} \cup
    {RecipeRequest("n", OneIngredient, img, MIN_COOKING_TIME) :
        img \in ImageInputs}

\* the recipes of the shopping-list example: R1 (flour 200 g, egg 2 pcs),
\* R2 (flour 100 g), R3 (egg 3 pcs, flour 1 kg)
ExampleIngredients ==
    [R1 |-> <<[id |-> 1, amount |-> 200], [id |-> 2, amount |-> 2]>>,
     R2 |-> <<[id |-> 1, amount |-> 100]>>,
     R3 |-> <<[id |-> 2, amount |-> 3], [id |-> 3, amount |-> 1]>>]

ExampleRequests ==
    {RecipeRequest(n, ExampleIngredients[n], "img_a", MIN_COOKING_TIME) :
        n \in DOMAIN ExampleIngredients}

\* user pks of a subscribe request
RequestUserIds == Users \cup {NoSuchUser}

\* recipe write requests over catalog ingredients: every list of one or two
\* items, repeated pks included, with the least and the greatest amount
ReplaceRequests ==
    {RecipeRequest("n", ings, "img_a", MIN_COOKING_TIME) :
        ings \in SeqsOf(IngredientItems({1, 2}, {1, MaxAmount}), {1, 2})}

\* the query parameters of the list requests
ListRequests ==
    {ListParams(author, is_favorited, is_in_shopping_cart) :
        author \in {NoValue, "u2"},
        is_favorited \in {NoValue, "1"},
        is_in_shopping_cart \in {NoValue, "1"}} \cup
    {ListParams(NoValue, "0", "0")}

RequestUsernames == {"ann", "bob", "an n"}

RegistrationRequests ==
    {UserRequest(username, email) :
        username \in RequestUsernames, email \in RequestEmails}

\* partial profile updates: a username, an email, or both
ProfileRequests ==
    {UserRequest(username, email) :
        username \in {NoValue, "ann"},
        email \in {NoEmail, Email_ann, Email_ab_aa, Email_invalid}}

\* recipe write requests that break the validation rules, several at a time:
\* a name or none, lists with an unknown pk, a repeated pk or an amount out
\* of range, an image, none or an empty one, a cooking time in or out of
\* range
InvalidRequests ==
    {RecipeRequest(name, ings, image, cooking_time) :
        name \in {NoValue, "n"},
        ings \in SeqsOf(IngredientItems({1, 9}, {MIN_VALUE - 1, MIN_VALUE}),
                        ListLengths),
        image \in {NoValue, "", "img_a"},
        cooking_time \in {MIN_COOKING_TIME - 1, MIN_COOKING_TIME}}

\* the callers of the catalog: a user, the admin, nobody
CatalogCallers == {"u1", "u3", Anon}
\* the catalog pks requests name; 4 is free until a row is created
CatalogPks == {1, 4}
\* the ingredients requests submit
IngredientInputs ==
    {IngredientInput(name, measurement_unit) :
        name \in {NoValue, "flour", "salt"},
        measurement_unit \in {NoValue, "kg"}}
\* the name queries of the list
NameQueries == {NoValue, "FL", "s", "eggs"}

\* recipe write requests that rename the recipe and replace its single
\* ingredient
OwnershipRequests ==
    {RecipeRequest(name, <<item>>, "img_a", MIN_COOKING_TIME) :
        name \in {"n", "m"}, item \in IngredientItems({1, 2}, {MaxAmount})}

----------------------------------------------------------------------------
(* Specifications *)

\* the recipe write path
NextWrite ==
    \/ \E caller \in RecipeUsers, req \in WriteRequests :
            RecipeCreate(caller, req)
    \/ RecipeCreate(Anon, NoRequest)
    \/ \E caller \in RecipeUsers, pk \in RecipeIds, req \in WriteRequests :
            RecipeUpdate(caller, pk, req)
    \/ \E pk \in RecipeIds : RecipeUpdate(Anon, pk, NoRequest)

SpecWrite == Init /\ [][NextWrite]_vars

\* recipes created, put into shopping carts, and the cart downloaded
NextCart ==
    \/ \E caller \in RecipeUsers, req \in ExampleRequests :
            RecipeCreate(caller, req)
    \/ \E caller \in RecipeCallers, pk \in RecipeIds :
            ShoppingCart(caller, pk)
    \/ \E caller \in RecipeCallers : DownloadShoppingCart(caller)

SpecCart == Init /\ [][NextCart]_vars

\* the shopping cart and its download over a loaded database
NextStore ==
    \/ \E caller \in RecipeCallers, pk \in RecipeIds :
            ShoppingCart(caller, pk)
    \/ \E caller \in RecipeCallers, pk \in RecipeIds :
            RemoveShoppingCart(caller, pk)
    \/ \E caller \in RecipeCallers : DownloadShoppingCart(caller)

SpecStore == InitStore /\ [][NextStore]_vars

\* the Favorite and ShoppingList relations over recipes created on the way
NextRelations ==
    \/ \E caller \in RecipeUsers :
            RecipeCreate(caller, RecipeRequest("n", OneIngredient, "img_a",
                                               MIN_COOKING_TIME))
    \/ \E caller \in RecipeCallers, pk \in RecipeIds : Favorite(caller, pk)
    \/ \E caller \in RecipeCallers, pk \in RecipeIds : RemoveFavorite(caller, pk)
    \/ \E caller \in RecipeCallers, pk \in RecipeIds : ShoppingCart(caller, pk)
    \/ \E caller \in RecipeCallers, pk \in RecipeIds :
            RemoveShoppingCart(caller, pk)

SpecRelations == Init /\ [][NextRelations]_vars

\* the subscription graph
NextSubscriptions ==
    \/ \E caller \in Callers, pk \in RequestUserIds : Subscribe(caller, pk)
    \/ \E caller \in Callers, pk \in RequestUserIds : Unsubscribe(caller, pk)
    \/ \E caller \in Callers : MySubscriptions(caller)

SpecSubscriptions == Init /\ [][NextSubscriptions]_vars

\* the recipe list over the recipes created and the relations filled on
\* the way
NextList ==
    \/ \E caller \in RecipeUsers :
            RecipeCreate(caller, RecipeRequest("n", OneIngredient, "img_a",
                                               MIN_COOKING_TIME))
    \/ \E caller \in RecipeUsers, pk \in RecipeIds : Favorite(caller, pk)
    \/ \E caller \in RecipeUsers, pk \in RecipeIds : ShoppingCart(caller, pk)
    \/ \E caller \in RecipeCallers, params \in ListRequests :
            RecipeList(caller, params)

SpecList == Init /\ [][NextList]_vars

\* recipe create, update and delete over a loaded recipe
NextRecipes ==
    \/ \E caller \in RecipeUsers, req \in ReplaceRequests :
            RecipeCreate(caller, req)
    \/ \E caller \in RecipeUsers, pk \in RecipeIds, req \in ReplaceRequests :
            RecipeUpdate(caller, pk, req)
    \/ \E caller \in RecipeCallers, pk \in RecipeIds :
            RecipeDestroy(caller, pk)

SpecRecipes == InitLoaded /\ [][NextRecipes]_vars

\* the simple recipe request
SimpleRequest ==
    RecipeRequest("n", OneIngredient, "img_a", MIN_COOKING_TIME)

\* recipe and user deletion over the rows the other handlers create; a
\* deleted account sends no authenticated request
NextCascade ==
    \/ \E caller \in {"u2"} \cap DOMAIN users :
            RecipeCreate(caller, SimpleRequest)
    \/ \E caller \in {"u1"} \cap DOMAIN users, pk \in RecipeIds :
            Favorite(caller, pk)
    \/ \E caller \in {"u2"} \cap DOMAIN users, pk \in RecipeIds :
            ShoppingCart(caller, pk)
    \/ \E caller \in RecipeUsers \cap DOMAIN users, pk \in RecipeUsers :
            Subscribe(caller, pk)
    \/ \E caller \in DOMAIN users \cup {Anon}, pk \in RecipeIds :
            RecipeDestroy(caller, pk)
    \/ \E caller \in DOMAIN users \cup {Anon}, pk \in RequestUserIds :
            DeleteUser(caller, pk)

SpecCascade == InitLoaded /\ [][NextCascade]_vars

\* registration, profile update and login over an empty User table
NextUsers ==
    \/ \E req \in RegistrationRequests : Register(req)
    \/ \E caller \in Range(UserPks) \cup {Anon}, pk \in Range(UserPks) :
          \E req \in ProfileRequests : UpdateProfile(caller, pk, req)
    \/ \E email \in RequestEmails : ObtainAuthToken(email)

SpecUsers == InitUsers /\ [][NextUsers]_vars

\* the add requests served side by side: <<op, caller, pk>>
RaceRequests ==
    {<<op, caller, 1>> :
        op \in {"favorite", "shopping_cart"}, caller \in RecipeUsers} \cup
    {<<"subscribe", caller, pk>> :
        caller \in RecipeUsers, pk \in RecipeUsers} \cup
    {<<"favorite", Anon, 1>>, <<"subscribe", "u1", NoSuchUser>>}

\* add requests served side by side, statement by statement
NextRace ==
    \/ RecipeCreate("u1", SimpleRequest)
    \/ \E s \in RequestSlots, request \in RaceRequests :
            AddReceive(s, request[1], request[2], request[3])
    \/ \E s \in RequestSlots : SubscribeCheck(s)
    \/ \E s \in RequestSlots : AddValidate(s)
    \/ \E s \in RequestSlots : AddGet(s)
    \/ \E s \in RequestSlots : AddInsert(s)
    \/ \E s \in RequestSlots : AddRespond(s)

SpecRace == Init /\ [][NextRace]_vars


\* the slot of the update served statement by statement
UpdateSlots == {1}

\* a recipe update served statement by statement next to the readers of
\* the recipe
NextAtomic ==
    \/ \E s \in UpdateSlots, caller \in RecipeCallers, req \in ReplaceRequests :
            UpdateReceive(s, caller, 1, req)
    \/ \E s \in UpdateSlots : UpdateValidate(s)
    \/ \E s \in UpdateSlots : UpdateSave(s)
    \/ \E s \in UpdateSlots : UpdateDelete(s)
    \/ \E s \in UpdateSlots : UpdateCreate(s)
    \/ \E caller \in RecipeCallers, pk \in RecipeIds : RecipeRetrieve(caller, pk)
    \/ ShoppingCart("u2", 1)
    \/ \E caller \in RecipeCallers : DownloadShoppingCart(caller)

SpecAtomic == InitLoaded /\ [][NextAtomic]_vars

\* recipe create and update over requests that break several rules
NextValidation ==
    \/ \E req \in InvalidRequests : RecipeCreate("u1", req)
    \/ \E pk \in RecipeIds, req \in InvalidRequests :
            RecipeUpdate("u1", pk, req)

SpecValidation == Init /\ [][NextValidation]_vars

\* the ingredient catalog
NextCatalog ==
    \/ \E caller \in CatalogCallers, input \in IngredientInputs :
            IngredientCreate(caller, input)
    \/ \E caller \in CatalogCallers, pk \in CatalogPks,
          input \in IngredientInputs :
            IngredientUpdate(caller, pk, input)
    \/ \E caller \in CatalogCallers, pk \in CatalogPks,
          input \in IngredientInputs :
            IngredientPartialUpdate(caller, pk, input)
    \/ \E caller \in CatalogCallers, pk \in CatalogPks :
            IngredientDestroy(caller, pk)
    \/ \E caller \in CatalogCallers, name \in NameQueries :
            IngredientList(caller, name)
    \/ \E caller \in CatalogCallers, pk \in CatalogPks :
            IngredientRetrieve(caller, pk)

SpecCatalog == InitLoaded /\ [][NextCatalog]_vars

\* recipe writes by the author, by other users, by the admin and by nobody
NextOwnership ==
    \/ \E caller \in {"u2", Anon} : RecipeCreate(caller, SimpleRequest)
    \/ \E caller \in Callers, pk \in RecipeIds, req \in OwnershipRequests :
            RecipeUpdate(caller, pk, req)
    \/ \E caller \in Callers, pk \in RecipeIds, req \in OwnershipRequests :
            RecipePartialUpdate(caller, pk, req)
    \/ \E caller \in Callers, pk \in RecipeIds :
            RecipeDestroy(caller, pk)

SpecOwnership == InitLoaded /\ [][NextOwnership]_vars

\* every handler
Next ==
    \/ NextWrite
    \/ NextCart
    \/ NextStore
    \/ NextRelations
    \/ NextSubscriptions
    \/ NextUsers
    \/ NextList
    \/ NextRecipes
    \/ NextCascade
    \/ NextRace
    \/ NextAtomic
    \/ NextValidation
    \/ NextCatalog
    \/ NextOwnership

Spec == Init /\ [][Next]_vars

----------------------------------------------------------------------------
(* Claims about the recipe write path (SpecWrite) *)

IsRecipeWrite(r) == r.op \in {"recipe_create", "recipe_update"}

\* the ingredient list submits some ingredient pk more than once
HasDuplicateIds(ingredients) ==
    \E i, j \in DOMAIN ingredients :
        i # j /\ ingredients[i].id = ingredients[j].id

\* the request passes authentication, object lookup and object permission
ReachesSerializer(r) ==
    /\ r.caller \in Users
    /\ r.op = "recipe_update" =>
            (r.pk \in DOMAIN recipes /\ recipes[r.pk].author = r.caller)

\* C1: after a successful recipe create carrying the ingredient list L, the
\* RecipeIngredient rows of the new recipe are exactly the (ingredient,
\* amount) pairs of L.
C1_CreateStoresSubmitted ==
    (last.op = "recipe_create" /\ last.status = HTTP_201_CREATED) =>
        IngredientsOf(recipe_ingredients, last.pk) =
            Submitted(last.req.ingredients)

\* C2: after a successful recipe update carrying the ingredient list L, the
\* RecipeIngredient rows of that recipe are exactly the pairs of L, whatever
\* was stored before.
C2_UpdateReplacesWithSubmitted ==
    (last.op = "recipe_update" /\ last.status = 200) =>
        IngredientsOf(recipe_ingredients, last.pk) =
            Submitted(last.req.ingredients)

\* C5: a recipe create or update request whose ingredient list repeats an
\* ingredient pk is never answered with success and leaves every table
\* unchanged; once it reaches the serializer it is answered 400 with a
\* validation error.
C5_DuplicateIngredientsRejected ==
    [][(IsRecipeWrite(last') /\ HasDuplicateIds(last'.req.ingredients)) =>
            /\ store' = store
            /\ last'.status \notin {200, HTTP_201_CREATED}
            /\ ReachesSerializer(last') =>
                    (last'.status = HTTP_400_BAD_REQUEST /\ last'.errors # {})
      ]_vars

C5_Witness ==
    /\ IsRecipeWrite(last)
    /\ last.op = "recipe_update"
    /\ ReachesSerializer(last)
    /\ HasDuplicateIds(last.req.ingredients)
    /\ last.status = HTTP_400_BAD_REQUEST
    /\ last.errors = {"ingredients not unique"}

\* C6: a recipe create request of a user that references an ingredient pk
\* absent from the catalog is answered 400, the error names every absent
\* pk, and no Recipe or RecipeIngredient row is created.
C6_MissingIngredientRejected ==
    [][(/\ last'.op = "recipe_create"
        /\ last'.caller \in Users
        /\ UnknownIngredientIds(last'.req.ingredients) # {}) =>
            /\ last'.status = HTTP_400_BAD_REQUEST
            /\ UnknownIngredientIds(last'.req.ingredients) \subseteq
                    last'.error_ids
            /\ recipes' = recipes
            /\ next_recipe_id' = next_recipe_id
            /\ recipe_ingredients' = recipe_ingredients
      ]_vars

C6_Witness ==
    /\ last.op = "recipe_create"
    /\ last.caller \in Users
    /\ Len(last.req.ingredients) > 1
    /\ UnknownIngredientIds(last.req.ingredients) # {}
    /\ \E item \in Range(last.req.ingredients) : item.id \in IngredientIds
    /\ last.status = HTTP_400_BAD_REQUEST
    /\ last.error_ids = UnknownIngredientIds(last.req.ingredients)

\* the request is valid once an image is supplied
ValidApartFromImage(req) ==
    SerializerErrors([req EXCEPT !.image = "img_a"]) = {}

\* C7: a create request with an absent or empty image fails, whereas an
\* otherwise valid update request that omits image succeeds and leaves the
\* recipe's stored image unchanged.
C7_ImageRule ==
    [][/\ (/\ last'.op = "recipe_create"
           /\ last'.caller \in Users
           /\ last'.req.image \in {NoValue, ""}) =>
                (last'.status = HTTP_400_BAD_REQUEST /\ store' = store)
       /\ (/\ last'.op = "recipe_update"
           /\ ReachesSerializer(last')
           /\ last'.req.image = NoValue
           /\ ValidApartFromImage(last'.req)) =>
                (/\ last'.status = 200
                 /\ recipes'[last'.pk].image = recipes[last'.pk].image)
      ]_vars

----------------------------------------------------------------------------
(* Claims about the shopping-list download (SpecStore, SpecCart) *)

IngredientNames == {ingredient_catalog[i].name : i \in IngredientIds}
MeasurementUnits ==
    {ingredient_catalog[i].measurement_unit : i \in IngredientIds}

\* the recipes in a user's shopping cart
CartRecipes(user) ==
    {row.recipe : row \in {c \in shopping_carts : c.user = user}}

\* the RecipeIngredient rows of the cart's recipes with one name and unit
GroupRows(user, name, unit) ==
    {row \in recipe_ingredients :
        /\ row.recipe \in CartRecipes(user)
        /\ ingredient_catalog[row.ingredient].name = name
        /\ ingredient_catalog[row.ingredient].measurement_unit = unit}

TotalOf(rows) == SumOver(rows, [row \in rows |-> row.amount])

\* C3: for every user and every state of the store, the download holds
\* exactly one line per (name, unit) group of the RecipeIngredient rows of
\* the recipes in that user's cart, with the sum of the group's amounts; an
\* empty cart gives an empty document and no error.
C3_DownloadAggregates ==
    (last.op = "download_shopping_cart" /\ last.caller \in Users) =>
        /\ last.status = 200
        /\ last.doc =
            {<<k[1], "-", TotalOf(GroupRows(last.caller, k[1], k[2])),
               "(", k[2], ")">> :
                k \in {g \in IngredientNames \X MeasurementUnits :
                            GroupRows(last.caller, g[1], g[2]) # {}}}
        /\ CartRecipes(last.caller) = {} => last.doc = {}

C3_Witness ==
    /\ last.op = "download_shopping_cart"
    /\ last.caller \in Users
    /\ Cardinality(last.doc) > 1
    /\ \E name \in IngredientNames, unit \in MeasurementUnits :
            Cardinality(GroupRows(last.caller, name, unit)) > 1
    /\ \E other \in Users \ {last.caller} :
            CartRecipes(other) \cap CartRecipes(last.caller) # {}

\* the ingredient list a recipe of SpecCart was created with
SubmittedAtCreation(pk) == ExampleIngredients[recipes[pk].name]

\* the items submitted for the cart's recipes with one name and unit
SubmittedItems(user, name, unit) ==
    {e \in UNION {{<<pk, i>> : i \in DOMAIN SubmittedAtCreation(pk)} :
                    pk \in CartRecipes(user)} :
        LET item == SubmittedAtCreation(e[1])[e[2]]
        IN  /\ ingredient_catalog[item.id].name = name
            /\ ingredient_catalog[item.id].measurement_unit = unit}

SubmittedTotal(items) ==
    SumOver(items, [e \in items |-> SubmittedAtCreation(e[1])[e[2]].amount])

\* C4: when recipes are created through recipe create and added to a user's
\* cart through shopping_cart, the user's download lists for each (name,
\* unit) the sum of the amounts submitted at creation over the cart's
\* recipes (R1 flour 200, egg 2 and R2 flour 100 give flour-300, egg-2).
C4_DownloadSumsSubmittedAmounts ==
    (last.op = "download_shopping_cart" /\ last.caller \in Users) =>
        last.doc =
            {<<k[1], "-", SubmittedTotal(SubmittedItems(last.caller, k[1], k[2])),
               "(", k[2], ")">> :
                k \in {g \in IngredientNames \X MeasurementUnits :
                            SubmittedItems(last.caller, g[1], g[2]) # {}}}

----------------------------------------------------------------------------
(* Claims about the Favorite / ShoppingList relations (SpecRelations) *)

\* C8: for an existing recipe and a user, favorite and shopping_cart alike
\* answer 400 and leave the relation unchanged when the (user, recipe) row
\* exists; otherwise they insert exactly that row and answer 201 with the
\* recipe summary.  Adding the same recipe twice in a row fails the second
\* time.
C8_RelationAdd ==
    [][(/\ last'.op \in {"favorite", "shopping_cart"}
        /\ last'.caller \in Users
        /\ last'.pk \in DOMAIN recipes) =>
            LET before == IF last'.op = "favorite" THEN favorites
                                                   ELSE shopping_carts
                after == IF last'.op = "favorite" THEN favorites'
                                                  ELSE shopping_carts'
                row == [user |-> last'.caller, recipe |-> last'.pk]
            IN  /\ IF row \in before
                     THEN /\ last'.status = HTTP_400_BAD_REQUEST
                          /\ after = before
                     ELSE /\ last'.status = HTTP_201_CREATED
                          /\ after = before \cup {row}
                          /\ last'.doc = {RecipeSummary(last'.pk)}
                /\ (/\ last.op = last'.op
                    /\ last.caller = last'.caller
                    /\ last.pk = last'.pk
                    /\ last.status = HTTP_201_CREATED) =>
                        last'.status = HTTP_400_BAD_REQUEST
      ]_vars

C8_Witness ==
    /\ last.op = "shopping_cart"
    /\ last.caller \in Users
    /\ last.status = HTTP_400_BAD_REQUEST
    /\ [user |-> last.caller, recipe |-> last.pk] \in shopping_carts
    /\ [user |-> last.caller, recipe |-> last.pk] \notin favorites
    /\ Cardinality(favorites) > 1

\* C9: favorite and shopping_cart removal alike answer 404 and change
\* nothing when the user has no row for the recipe; otherwise they delete
\* exactly that row, keep every other row, and answer 204 with no body.
C9_RelationRemove ==
    [][(/\ last'.op \in {"remove_favorite", "remove_shopping_cart"}
        /\ last'.caller \in Users) =>
            LET before == IF last'.op = "remove_favorite" THEN favorites
                                                          ELSE shopping_carts
                after == IF last'.op = "remove_favorite" THEN favorites'
                                                         ELSE shopping_carts'
                row == [user |-> last'.caller, recipe |-> last'.pk]
            IN  IF row \notin before
                  THEN /\ last'.status = HTTP_404_NOT_FOUND
                       /\ store' = store
                  ELSE /\ last'.status = HTTP_204_NO_CONTENT
                       /\ last'.doc = {}
                       /\ after = before \ {row}
                       /\ Cardinality(after) = Cardinality(before) - 1
      ]_vars

C9_Witness ==
    /\ last.op = "remove_favorite"
    /\ last.status = HTTP_204_NO_CONTENT
    /\ [user |-> last.caller, recipe |-> last.pk] \notin favorites
    /\ \E row \in favorites : row.recipe = last.pk
    /\ \E row \in favorites : row.user = last.caller

----------------------------------------------------------------------------
(* Claims about the subscription graph (SpecSubscriptions) *)

\* C10: subscribing to oneself is answered 400 whatever the caller's role,
\* and in every reachable state no Subscription row has its author equal to
\* its subscriber.
C10_NoSelfSubscription ==
    /\ \A row \in subscriptions : row.author # row.subscriber
    /\ (/\ last.op = "subscribe"
        /\ last.caller \in Users
        /\ last.pk = last.caller) => last.status = HTTP_400_BAD_REQUEST

C10_Witness ==
    /\ last.op = "subscribe"
    /\ last.caller \in Staff
    /\ last.pk = last.caller
    /\ last.status = HTTP_400_BAD_REQUEST
    /\ last.errors = {"cannot subscribe to yourself"}
    /\ \E row \in subscriptions : row.subscriber = last.caller
    /\ \E row \in subscriptions : row.author = last.caller

\* the Subscription rows of one ordered (author, subscriber) pair
EdgesOf(table, author, subscriber) ==
    {row \in table : row.author = author /\ row.subscriber = subscriber}

\* C11: a subscribe request of user U for an existing author A is answered
\* 400 and leaves the Subscription table unchanged when the edge (A, U)
\* exists; otherwise, when A differs from U, it is answered 201 and adds
\* exactly that edge.  After every step there is at most one edge per ordered
\* (author, subscriber) pair.
C11_SubscribeOncePerPair ==
    [][(/\ last'.op = "subscribe"
        /\ last'.caller \in DOMAIN users
        /\ last'.pk \in DOMAIN users) =>
            LET edge == [author |-> last'.pk, subscriber |-> last'.caller]
            IN  /\ edge \in subscriptions =>
                        /\ last'.status = HTTP_400_BAD_REQUEST
                        /\ subscriptions' = subscriptions
                /\ (edge \notin subscriptions /\ last'.pk # last'.caller) =>
                        /\ last'.status = HTTP_201_CREATED
                        /\ subscriptions' = subscriptions \cup {edge}
                        /\ Cardinality(subscriptions') =
                                Cardinality(subscriptions) + 1
                /\ \A a, u \in DOMAIN users :
                        Cardinality(EdgesOf(subscriptions', a, u)) <= 1
      ]_vars

C11_Witness ==
    /\ last.op = "subscribe"
    /\ last.caller \in DOMAIN users
    /\ last.pk \in DOMAIN users \ {last.caller}
    /\ last.status = HTTP_400_BAD_REQUEST
    /\ last.errors = {"already subscribed"}
    /\ EdgesOf(subscriptions, last.pk, last.caller) # {}
    /\ EdgesOf(subscriptions, last.caller, last.pk) # {}

\* C12: an unsubscribe request of user U for an existing author A is
\* answered 400 and leaves the Subscription table unchanged when no edge
\* (A, U) exists; otherwise it is answered 204 and deletes exactly the edge
\* (A, U), keeping every edge of another subscriber or to another author.
C12_UnsubscribeExactEdge ==
    [][(/\ last'.op = "unsubscribe"
        /\ last'.caller \in DOMAIN users
        /\ last'.pk \in DOMAIN users) =>
            LET edge == [author |-> last'.pk, subscriber |-> last'.caller]
            IN  IF edge \notin subscriptions
                  THEN /\ last'.status = HTTP_400_BAD_REQUEST
                       /\ store' = store
                  ELSE /\ last'.status = HTTP_204_NO_CONTENT
                       /\ subscriptions' = subscriptions \ {edge}
                       /\ \A row \in subscriptions :
                            (row.subscriber # last'.caller \/ row.author # last'.pk)
                                => row \in subscriptions'
      ]_vars

C12_Witness ==
    /\ last.op = "unsubscribe"
    /\ last.status = HTTP_204_NO_CONTENT
    /\ EdgesOf(subscriptions, last.pk, last.caller) = {}
    /\ \E row \in subscriptions :
            row.subscriber = last.caller /\ row.author # last.pk
    /\ \E row \in subscriptions :
            row.author = last.pk /\ row.subscriber # last.caller
    /\ EdgesOf(subscriptions, last.caller, last.pk) # {}

\* the authors a user follows
AuthorsFollowedBy(user) ==
    {row.author : row \in {r \in subscriptions : r.subscriber = user}}

\* C13: for every user U and every reachable Subscription table, the "my
\* subscriptions" query returns exactly the authors A with an edge (author =
\* A, subscriber = U), each once, and no user U does not follow.
C13_MySubscriptionsListsAuthors ==
    (last.op = "my_subscriptions" /\ last.caller \in DOMAIN users) =>
        /\ last.status = 200
        /\ last.doc = {<<author, 1>> : author \in AuthorsFollowedBy(last.caller)}

----------------------------------------------------------------------------
(* Claims about the user accounts (SpecUsers) *)

\* the candidate address, case-folded, scores 0.8 or more against the
\* case-folded address of an existing user
ScoresAgainst(candidate, existing) ==
    LET a == Lower(candidate)
        b == Lower(existing)
    IN  IF {a, b} \subseteq LowerRequestEmails
            THEN \E k \in DOMAIN SimilarRequestEmails :
                    SimilarRequestEmails[k] = <<a, b>>
            ELSE IsSimilar(a, b)

\* C14: a registration whose email, case-folded, has a similarity ratio of
\* at least 0.8 with the case-folded email of an existing user is answered
\* 400 and creates no user; so the email of a user a registration creates
\* scores below 0.8 against the email of every user that existed then.
C14_SimilarEmailRejected ==
    [][last'.op = "register" =>
            /\ (\E pk \in DOMAIN users :
                    ScoresAgainst(last'.req.email, users[pk].email)) =>
                        /\ last'.status = HTTP_400_BAD_REQUEST
                        /\ users' = users
                        /\ next_user_id' = next_user_id
            /\ last'.status = HTTP_201_CREATED =>
                    /\ last'.pk \in DOMAIN users' \ DOMAIN users
                    /\ \A pk \in DOMAIN users :
                            ~ScoresAgainst(users'[last'.pk].email, users[pk].email)
      ]_vars

C14_Witness ==
    /\ last.op = "register"
    /\ last.status = HTTP_400_BAD_REQUEST
    /\ last.errors = {"email: similar"}
    /\ last.req.email = Email_a_ab
    /\ \A pk \in DOMAIN users : Lower(users[pk].email) # Lower(last.req.email)
    /\ \E pk \in DOMAIN users : users[pk].email = Email_ab_aa

\* C18: after any sequence of registrations and profile updates no two users
\* share a username and no two users share an email, so a login by email
\* finds at most one user.
C18_UniqueUsernameAndEmail ==
    /\ \A p, q \in DOMAIN users :
            p # q => /\ users[p].username # users[q].username
                     /\ users[p].email # users[q].email
    /\ last.op = "login" => (Cardinality(last.doc) <= 1 /\ last.status # 500)

----------------------------------------------------------------------------
(* Claims about the recipe list (SpecList) *)

\* C15: whenever is_favorited=1 is supplied every listed recipe is in the
\* caller's Favorite set, and whenever is_in_shopping_cart=1 is supplied
\* every listed recipe is in the caller's ShoppingList set, whatever other
\* filters accompany it; for an unauthenticated caller either flag gives an
\* empty list and no error.
C15_ListMembershipFilters ==
    last.op = "recipe_list" =>
        /\ last.status = 200
        /\ last.req.is_favorited = "1" =>
                IF last.caller \in DOMAIN users
                    THEN \A pk \in last.doc :
                            [user |-> last.caller, recipe |-> pk] \in favorites
                    ELSE last.doc = {}
        /\ last.req.is_in_shopping_cart = "1" =>
                IF last.caller \in DOMAIN users
                    THEN \A pk \in last.doc :
                            [user |-> last.caller, recipe |-> pk] \in shopping_carts
                    ELSE last.doc = {}

\* C16: a list request with author=X lists only recipes whose author is X,
\* and all of them when no other filter is supplied.
C16_ListAuthorFilter ==
    (last.op = "recipe_list" /\ last.req.author # NoValue) =>
        /\ \A pk \in last.doc : recipes[pk].author = last.req.author
        /\ (last.req.is_favorited = NoValue /\
                last.req.is_in_shopping_cart = NoValue) =>
                    last.doc = {pk \in DOMAIN recipes :
                                    recipes[pk].author = last.req.author}

----------------------------------------------------------------------------
(* Claims about the stored rows (SpecRecipes, SpecCascade) *)

\* C17: in every reachable state, after any sequence of recipe create,
\* update and delete requests, each recipe has at most one RecipeIngredient
\* row per ingredient.
C17_OneRowPerIngredient ==
    \A r1, r2 \in recipe_ingredients :
        (r1.recipe = r2.recipe /\ r1.ingredient = r2.ingredient) => r1 = r2

C17_Witness ==
    /\ last.op = "recipe_update"
    /\ last.status = 200
    /\ last.pk = 2
    /\ Cardinality(IngredientsOf(recipe_ingredients, 1)) = 2

\* C19: deleting a recipe removes its RecipeIngredient rows and every
\* Favorite and ShoppingList row that references it, deleting a user removes
\* every Favorite, ShoppingList and Subscription row that references the
\* user; so in every reachable state no row references a recipe or a user
\* that does not exist.
C19_NoDanglingRows ==
    /\ \A row \in recipe_ingredients : row.recipe \in DOMAIN recipes
    /\ \A row \in favorites \cup shopping_carts :
            row.recipe \in DOMAIN recipes /\ row.user \in DOMAIN users
    /\ \A row \in subscriptions :
            row.author \in DOMAIN users /\ row.subscriber \in DOMAIN users
    /\ \A pk \in DOMAIN recipes : recipes[pk].author \in DOMAIN users
    /\ (last.op = "recipe_destroy" /\ last.status = HTTP_204_NO_CONTENT) =>
            last.pk \notin DOMAIN recipes
    /\ (last.op = "delete_user" /\ last.status = HTTP_204_NO_CONTENT) =>
            last.pk \notin DOMAIN users

C19_Witness ==
    /\ last.op = "delete_user"
    /\ last.status = HTTP_204_NO_CONTENT
    /\ last.pk = "u1"
    /\ DOMAIN recipes = {2}
    /\ recipe_ingredients = {}
    /\ favorites = {}
    /\ shopping_carts = {[user |-> "u2", recipe |-> 2]}
    /\ subscriptions = {}

----------------------------------------------------------------------------
(* Claims about the independence of the relations (SpecRelations) *)

\* the rows of a relation that belong to other users than `user`
RowsOfOthers(table, user) == {row \in table : row.user # user}

\* C20: a favorite add or remove, successful or failed, leaves every
\* ShoppingList row unchanged, a shopping_cart add or remove leaves every
\* Favorite row unchanged, and both leave the rows of every other user
\* unchanged.
C20_RelationsIndependent ==
    [][/\ last'.op \in {"favorite", "remove_favorite"} =>
            /\ shopping_carts' = shopping_carts
            /\ RowsOfOthers(favorites', last'.caller) =
                    RowsOfOthers(favorites, last'.caller)
       /\ last'.op \in {"shopping_cart", "remove_shopping_cart"} =>
            /\ favorites' = favorites
            /\ RowsOfOthers(shopping_carts', last'.caller) =
                    RowsOfOthers(shopping_carts, last'.caller)
      ]_vars

C20_Witness ==
    /\ last.op = "remove_shopping_cart"
    /\ last.status = HTTP_204_NO_CONTENT
    /\ [user |-> last.caller, recipe |-> last.pk] \in favorites
    /\ \E row \in shopping_carts :
            row.user # last.caller /\ row.recipe = last.pk
    /\ \E row \in favorites : row.user # last.caller

----------------------------------------------------------------------------
(* Claims about requests served side by side (SpecRace) *)

\* the rows of a relation table for one (user, recipe) pair
RowsOfPair(table, user, recipe) ==
    {row \in table : row.user = user /\ row.recipe = recipe}

\* the slots whose request is the add request <<op, caller, pk>>
SlotsOf(op, caller, pk) ==
    {s \in RequestSlots :
        /\ inflight[s].op = op
        /\ inflight[s].caller = caller
        /\ inflight[s].pk = pk}

\* C21: under every interleaving of the statements of concurrent favorite,
\* shopping_cart and subscribe requests, also when several requests for one
\* pair pass the existence check before any of them inserts, no table holds
\* two rows for one pair.
C21_OneRowPerPair ==
    /\ \A u \in DOMAIN users, pk \in DOMAIN recipes :
            /\ Cardinality(RowsOfPair(favorites, u, pk)) <= 1
            /\ Cardinality(RowsOfPair(shopping_carts, u, pk)) <= 1
    /\ \A a, u \in DOMAIN users :
            Cardinality(EdgesOf(subscriptions, a, u)) <= 1

C21_Witness ==
    \E a, b, c \in RequestSlots :
        /\ a # b /\ b # c /\ a # c
        /\ {a, b, c} \subseteq SlotsOf("favorite", "u2", 1)
        /\ inflight[a].status = HTTP_201_CREATED
        /\ ~inflight[a].integrity_error
        /\ inflight[b].integrity_error
        /\ inflight[c].integrity_error
        /\ Cardinality(RowsOfPair(favorites, "u2", 1)) = 1

\* C22: an add request that passed the existence check and whose INSERT
\* then failed at the table's uniqueness constraint is answered 400, not 201
\* and not a server error.
C22_RaceLoserAnswered400 ==
    \A s \in RequestSlots :
        (inflight[s].pc = "done" /\ inflight[s].integrity_error) =>
            inflight[s].status = HTTP_400_BAD_REQUEST

----------------------------------------------------------------------------
(* Claims about a recipe update and its concurrent readers (SpecAtomic) *)

\* the RecipeIngredient table with the rows of recipe pk replaced by the
\* (ingredient, amount) pairs
WithRowsOf(pk, pairs) ==
    {row \in recipe_ingredients : row.recipe # pk} \cup
    {[recipe |-> pk, ingredient |-> p[1], amount |-> p[2]] : p \in pairs}

\* the document of a user's download over a RecipeIngredient table
DownloadOver(table, user) ==
    LET joined == {j \in table \X shopping_carts :
                        j[2].recipe = j[1].recipe /\ j[2].user = user}
        groups == {GroupKey(j[1]) : j \in joined}
        members(g) == {j \in joined : GroupKey(j[1]) = g}
    IN  {<<g[1], "-",
           SumOver(members(g), [j \in members(g) |-> j[1].amount]),
           "(", g[2], ")">> : g \in groups}

\* C23: a recipe retrieve or a shopping-list download that runs while an
\* update of the recipe from the association set A to the set B is between
\* its first and its last write observes A or B for that recipe, never an
\* intermediate set.
C23_ReadersSeeOldOrNew ==
    [][\A s \in RequestSlots :
        (/\ inflight[s].op = "recipe_update"
         /\ inflight[s].pc \in {"save", "delete", "create"}
         /\ inflight' = inflight) =>
            LET A == inflight[s].rows_before
                B == Submitted(inflight[s].req.ingredients)
            IN  /\ (/\ last'.op = "recipe_retrieve"
                    /\ last'.pk = inflight[s].pk
                    /\ last'.status = 200) =>
                        \A detail \in last'.doc : detail.ingredients \in {A, B}
                /\ (/\ last'.op = "download_shopping_cart"
                    /\ last'.caller \in DOMAIN users) =>
                        last'.doc \in
                            {DownloadOver(WithRowsOf(inflight[s].pk, A),
                                          last'.caller),
                             DownloadOver(WithRowsOf(inflight[s].pk, B),
                                          last'.caller)}
      ]_vars

----------------------------------------------------------------------------
(* Claims about replacing a recipe's ingredients twice (SpecRecipes) *)

\* C24: for every recipe and every valid ingredient list A, the stored
\* (ingredient, amount) pairs after updating with A twice in a row equal the
\* stored pairs after updating with A once.
C24_ReplaceIdempotent ==
    [][(last'.op = "recipe_update" /\ last'.status = 200) =>
            LET pk == last'.pk
                A == last'.req.ingredients
                once == recipe_ingredients'
                twice == UpdateIngredients(once, pk, A)
            IN  /\ IngredientsOf(twice, pk) = IngredientsOf(once, pk)
                /\ (/\ last.op = "recipe_update"
                    /\ last.status = 200
                    /\ last.pk = pk
                    /\ last.req.ingredients = A) =>
                        IngredientsOf(recipe_ingredients', pk) =
                            IngredientsOf(recipe_ingredients, pk)
      ]_vars

C24_Witness ==
    /\ last.op = "recipe_update"
    /\ last.status = 200
    /\ last.pk = 1
    /\ Len(last.req.ingredients) = 2
    /\ \E item \in Range(last.req.ingredients) : item.amount = MaxAmount
    /\ ENABLED RecipeUpdate(last.caller, last.pk, last.req)
    /\ 2 \in DOMAIN recipes

----------------------------------------------------------------------------
(* Claims about the order of the validation rules (SpecValidation) *)

\* the numbered rules of the write path a request breaks
ViolatedRules(op, req) ==
    (IF req.name = NoValue THEN {1} ELSE {}) \cup
    (IF req.ingredients = <<>> THEN {2} ELSE {}) \cup
    (IF \E item \in Range(req.ingredients) : item.id \notin IngredientIds
        THEN {3} ELSE {}) \cup
    (IF HasDuplicateIds(req.ingredients) THEN {4} ELSE {}) \cup
    (IF op = "recipe_create" /\ req.image \in {NoValue, ""}
        THEN {5} ELSE {}) \cup
    (IF \/ req.cooking_time < 1 \/ req.cooking_time > 32000
        \/ \E item \in Range(req.ingredients) :
                item.amount < 1 \/ item.amount > 32000
        THEN {6} ELSE {})

\* the error messages that report a rule
RuleErrors(rule) ==
    CASE rule = 1 -> {"name: required", "name required"}
      [] rule = 2 -> {"ingredients empty"}
      [] rule = 3 -> {"ingredients.id: does_not_exist", "ingredients missing"}
      [] rule = 4 -> {"ingredients not unique"}
      [] rule = 5 -> {"image: invalid", "image required"}
      [] rule = 6 -> {"cooking_time: out of range",
                      "ingredients.amount: out of range"}

LowestRule(rules) == CHOOSE r \in rules : \A q \in rules : r <= q

FieldRuleErrors(req) ==
    (IF 1 \in ViolatedRules("recipe_create", req)
        THEN {"name: required"} ELSE {}) \cup
    (IF 3 \in ViolatedRules("recipe_create", req)
        THEN {"ingredients.id: does_not_exist"} ELSE {}) \cup
    (IF req.image = "" THEN {"image: invalid"} ELSE {}) \cup
    (IF req.cooking_time < 1 \/ req.cooking_time > 32000
        THEN {"cooking_time: out of range"} ELSE {}) \cup
    (IF \E item \in Range(req.ingredients) :
            item.amount < 1 \/ item.amount > 32000
        THEN {"ingredients.amount: out of range"} ELSE {})

----------------------------------------------------------------------------
(* Claims about the ingredient catalog (SpecCatalog) *)

IngredientWrites ==
    {"ingredient_create", "ingredient_update",
     "ingredient_partial_update", "ingredient_destroy"}

IsStaff(caller) == caller \in DOMAIN users /\ users[caller].is_staff

\* C26: the catalog is changed only by staff callers: a create, update or
\* delete of an ingredient by a caller who is not staff or not authenticated
\* is answered 405 and leaves the catalog unchanged; every change of the
\* catalog comes from a write by a staff caller; list and retrieve are
\* served to every caller.
C26_CatalogChangedOnlyByStaff ==
    [][/\ (last'.op \in IngredientWrites /\ ~IsStaff(last'.caller)) =>
                /\ last'.status = HTTP_405_METHOD_NOT_ALLOWED
                /\ ingredient_catalog' = ingredient_catalog
                /\ recipe_ingredients' = recipe_ingredients
       /\ ingredient_catalog' # ingredient_catalog =>
                last'.op \in IngredientWrites /\ IsStaff(last'.caller)
       /\ last'.op = "ingredient_list" => last'.status = 200
       /\ last'.op = "ingredient_retrieve" =>
                last'.status = IF last'.pk \in IngredientIds
                                  THEN 200 ELSE HTTP_404_NOT_FOUND]_vars

C26_Witness ==
    /\ last.op = "ingredient_destroy"
    /\ last.caller = "u1"
    /\ last.pk \in IngredientIds
    /\ last.status = HTTP_405_METHOD_NOT_ALLOWED
    /\ ingredient_catalog # Catalog

----------------------------------------------------------------------------
(* Claims about the ownership of recipes (SpecOwnership) *)

RecipeChanges == {"recipe_update", "recipe_partial_update", "recipe_destroy"}

\* C27: only the author of a recipe can change or delete it: an update,
\* partial update or delete of recipe R by an authenticated user other than
\* the author of R is denied and leaves R and its RecipeIngredient rows
\* unchanged; no operation changes the author of an existing recipe, and a
\* new recipe has the caller who created it as its author.
C27_OnlyAuthorChangesRecipe ==
    [][/\ (/\ last'.op \in RecipeChanges
           /\ last'.caller \in DOMAIN users
           /\ last'.pk \in DOMAIN recipes
           /\ recipes[last'.pk].author # last'.caller) =>
                /\ last'.status = HTTP_403_FORBIDDEN
                /\ last'.pk \in DOMAIN recipes'
                /\ recipes'[last'.pk] = recipes[last'.pk]
                /\ IngredientsOf(recipe_ingredients', last'.pk) =
                        IngredientsOf(recipe_ingredients, last'.pk)
       /\ \A pk \in DOMAIN recipes \cap DOMAIN recipes' :
                recipes'[pk].author = recipes[pk].author
       /\ \A pk \in DOMAIN recipes' \ DOMAIN recipes :
                /\ last'.op = "recipe_create"
                /\ recipes'[pk].author = last'.caller]_vars

C27_Witness ==
    /\ last.op = "recipe_partial_update"
    /\ last.caller = "u3"
    /\ last.pk = 2
    /\ 2 \in DOMAIN recipes
    /\ recipes[2].author = "u2"
    /\ IngredientsOf(recipe_ingredients, 1) # {}
    /\ last.status = HTTP_403_FORBIDDEN

====
